---------------------------- MODULE Spec2Model ----------------------------
(***************************************************************************)
(* Graph ingestion (ImprovedNeo4jLoader) and rule evaluation               *)
(* (SecurityRulesEngine) of cloud-infra-analysis, as state machines over   *)
(* an abstract property-graph store.                                       *)
(*                                                                         *)
(* The store holds nodes  [nid, label, props, lastupdated]  and edges      *)
(* [src, rel, dst, lastupdated]; nid is the store's internal node          *)
(* identity, props the property map (a property set to null is absent).    *)
(* A Cypher query is one auto-commit transaction: it either applies as a   *)
(* whole or raises and changes nothing.                                    *)
(***************************************************************************)
EXTENDS Integers, Sequences, FiniteSets, TLC

VARIABLES
    clock,        \* int(time.time()): wall clock, in seconds
    update_tag,   \* ImprovedNeo4jLoader.update_tag
    nodes,        \* the store's nodes
    edges,        \* the store's relationships
    ret,          \* the last loader call: its arguments and what it returned
    rules,        \* SecurityRulesEngine.rules: the active rules, in order
    pc,           \* per caller of run_analysis: its position in the method
    run,          \* per caller of run_analysis: rules_to_run, index, all_findings
    catalog,      \* the store's indexes and uniqueness constraints
    session,      \* ImprovedNeo4jLoader.session: None, or a session and its state
    registry      \* ModuleRegistry: _modules, _module_info, _instances

\* the variables beside the graph, the loader's tag and the engine
others == <<catalog, session, registry>>

vars == <<clock, update_tag, nodes, edges, ret, rules, pc, run, others>>

----------------------------------------------------------------------------
(* Bounds of the model *)

\* records per load_nodes / load_relationships call
MaxRecords == 3
\* stand-in for batch_size = 1000 of load_nodes and load_relationships
BatchSize == 2
\* last second of the wall clock
MaxTime == 3

NULL == "null"

\* a store without any index or constraint
NoCatalog == [indexes |-> {}, constraints |-> {}]

\* a ModuleRegistry after __init__
NoModules ==
    [modules |-> [k \in {} |-> NULL], module_info |-> [k \in {} |-> NULL],
     instances |-> [k \in {} |-> NULL]]

\* a connected loader over an empty catalog, and no module registry in use
LoaderReady ==
    /\ catalog = NoCatalog
    /\ session = "open"
    /\ registry = NoModules

----------------------------------------------------------------------------
(* data_models.py: the schema registry *)

SCHEMA_REGISTRY ==
    {"EC2Instance", "SecurityGroup", "VPC", "Subnet", "EBSVolume", "SecurityRule"}

\* hasattr(schema.properties, 'region')
HasRegion(label) ==
    label \in {"EC2Instance", "SecurityGroup", "VPC", "Subnet", "EBSVolume"}

\* get_schema: the schema (here its label), or NULL for an unknown kind
get_schema(node_type) ==
    IF node_type \in SCHEMA_REGISTRY THEN node_type ELSE NULL

----------------------------------------------------------------------------
(* Cypher semantics used by the loader's queries *)

\* item.k: null when the map has no key k
Get(item, k) == IF k \in DOMAIN item THEN item[k] ELSE NULL

\* SET n += item: every key of item overwrites; a null value removes the property
SetPlus(props, item) ==
    [k \in (DOMAIN props \cup DOMAIN item) \ {j \in DOMAIN item : item[j] = NULL}
        |-> IF k \in DOMAIN item THEN item[k] ELSE props[k]]

\* SET n.k = v
SetProp(props, k, v) == SetPlus(props, [j \in {k} |-> v])

\* the internal identity the store gives a new node
FreshNid(ns) ==
    CHOOSE k \in 1..(Cardinality(ns) + 1) : \A n \in ns : n.nid # k

\* MATCH (n:label {id: v}); null matches nothing
Match(ns, label, v) ==
    {n \in ns : n.label = label /\ v # NULL /\ Get(n.props, "id") = v}


----------------------------------------------------------------------------
(* ImprovedNeo4jLoader: node ingestion *)

Min(a, b) == IF a <= b THEN a ELSE b

\* range(0, len(data), batch_size): the number of batches
NumBatches(data) == (Len(data) + BatchSize - 1) \div BatchSize

\* data[i:i + batch_size] of the k-th pass of the loop (k = 1, 2, ...)
Batch(data, k) ==
    SubSeq(data, (k - 1) * BatchSize + 1, Min(k * BatchSize, Len(data)))

\* a CREATE in place of the MERGE: a node per row, matched or not
CreateNode(ns, label, v) ==
    ns \cup {[nid |-> FreshNid(ns), label |-> label,
              props |-> [k \in {"id"} |-> v], lastupdated |-> 0]}

\* MERGE (n:label {id: v}): the node is created only when nothing matches
MergeNode(ns, label, v) ==
    IF Match(ns, label, v) = {}
    THEN ns \cup {[nid |-> FreshNid(ns), label |-> label,
                   props |-> [k \in {"id"} |-> v], lastupdated |-> 0]}
    ELSE ns

\* the SET clauses of _build_node_query, applied to one merged node
SetNode(n, label, item, tag, region) ==
    [n EXCEPT !.props = IF HasRegion(label)
                        THEN SetProp(SetPlus(@, item), "region", region)
                        ELSE SetPlus(@, item),
              !.lastupdated = tag]

\* the query of _build_node_query over $batch, one row per item
RECURSIVE build_node_query(_, _, _, _, _)
build_node_query(ns, label, batch, tag, region) ==
    IF batch = <<>> THEN ns
    ELSE LET item   == Head(batch)
             merged == MergeNode(ns, label, Get(item, "id"))
             hit    == Match(merged, label, Get(item, "id"))
             after  == (merged \ hit)
                         \cup {SetNode(n, label, item, tag, region) : n \in hit}
         IN  build_node_query(after, label, Tail(batch), tag, region)

\* a store that merges on a null property value
MergeAcceptsNull(batch) == FALSE

\* MERGE on a null property value raises: the query fails as a whole
MergeRaises(batch) == \E i \in 1..Len(batch) : Get(batch[i], "id") = NULL

\* _load_node_batch: one session.run of the node query
load_node_batch(ns, label, batch, tag, region) ==
    build_node_query(ns, label, batch, tag, region)

\* the batches 1..k of load_nodes' loop, all successful
RECURSIVE LoadBatches(_, _, _, _, _, _)
LoadBatches(ns, label, data, k, tag, region) ==
    IF k = 0 THEN ns
    ELSE load_node_batch(LoadBatches(ns, label, data, k - 1, tag, region),
                         label, Batch(data, k), tag, region)

\* the first batch whose query raises a data error, or 0
FirstDataError(data) ==
    LET bad == {k \in 1..NumBatches(data) : MergeRaises(Batch(data, k))}
    IN  IF bad = {} THEN 0 ELSE CHOOSE k \in bad : \A j \in bad : k <= j

\* what a failed call tells its caller: False, and a logged line that names
\* the kind and the exception; no batch index is kept (0)
FailureReport(kind) == [kind |-> kind, batchIndex |-> 0]

\* a call that succeeded reports no failure
NoFailure == [kind |-> NULL, batchIndex |-> 0]

\* get_summary's dictionary before any finding is counted
NoSummary ==
    [total_findings |-> 0, by_severity |-> [k \in {} |-> 0],
     by_rule |-> [k \in {} |-> 0], affected_resources |-> 0]

\* no statement of the schema setup fails
NoDown == [index |-> {}, drop |-> {}, constraint |-> {}]

\* no loader call yet
NoCall ==
    [op |-> "none", kind |-> NULL, data |-> <<>>, region |-> NULL, tag |-> 0,
     ok |-> TRUE, failed_batch |-> 0, cause |-> "none", attempts |-> 0,
     queries |-> 0, reported |-> 0, repeat |-> FALSE, after |-> "none",
     error |-> NoFailure, returns |-> <<>>, limit |-> 0,
     types |-> {}, summary |-> NoSummary,
     raised |-> "none", down |-> NoDown, issued |-> <<>>]

\* the call repeats the previous one, which succeeded, on the same loader
SameCall(op, kind, data, region) ==
    /\ ret.op = op /\ ret.ok
    /\ ret.kind = kind /\ ret.data = data /\ ret.region = region
    /\ ret.tag = update_tag

\* load_nodes(node_type, data, region): the store raises a transient error at
\* batch `down` (0: never).  The loop has no retry: the first exception ends
\* it and the method returns False; the batches before it stay committed.
load_nodes(node_type, data, region, down) ==
    LET schema == get_schema(node_type)
        derr   == FirstDataError(data)
        failed == IF down # 0 /\ (derr = 0 \/ down <= derr) THEN down ELSE derr
        done   == IF failed = 0 THEN NumBatches(data) ELSE failed - 1
    IN  /\ down \in 0..NumBatches(data)
        /\ schema = NULL => down = 0
        /\ nodes' = IF schema = NULL THEN nodes
                    ELSE LoadBatches(nodes, schema, data, done, update_tag, region)
        /\ ret' = [op |-> "load_nodes", kind |-> node_type, data |-> data,
                   region |-> region, tag |-> update_tag,
                   ok |-> (schema # NULL /\ failed = 0),
                   failed_batch |-> IF schema = NULL THEN 0 ELSE failed,
                   cause |-> IF schema = NULL THEN "unknown kind"
                             ELSE IF failed = 0 THEN "none"
                             ELSE IF failed = down THEN "TransientError"
                             ELSE "null id",
                   attempts |-> IF schema = NULL \/ failed = 0 THEN 0 ELSE 1,
                   queries |-> IF schema = NULL THEN 0
                               ELSE IF failed = 0 THEN done ELSE done + 1,
                   reported |-> IF schema # NULL /\ failed = 0 THEN Len(data) ELSE 0,
                   repeat |-> SameCall("load_nodes", node_type, data, region),
                   after |-> ret.op,
                   error |-> IF schema # NULL /\ failed = 0 THEN NoFailure
                             ELSE FailureReport(node_type),
                   returns |-> <<schema # NULL /\ failed = 0>>,
                   limit |-> 0,
                   types |-> {}, summary |-> NoSummary,
                   raised |-> "none", down |-> NoDown, issued |-> <<>>]
        /\ UNCHANGED <<clock, update_tag, edges, rules, pc, run, others>>


----------------------------------------------------------------------------
(* ImprovedNeo4jLoader: relationship ingestion *)

\* the four queries of _load_relationship_batch: the labels and the item keys
\* of the two MATCH clauses, source first
RelTypes == {"IS_MEMBER_OF", "LOCATED_IN", "ATTACHES_TO", "HAS_RULE"}

RelDef(rel_type) ==
    CASE rel_type = "IS_MEMBER_OF" ->
            [src |-> "EC2Instance", skey |-> "instance_id",
             dst |-> "SecurityGroup", dkey |-> "group_id"]
      [] rel_type = "LOCATED_IN" ->
            [src |-> "EC2Instance", skey |-> "instance_id",
             dst |-> "Subnet", dkey |-> "subnet_id"]
      [] rel_type = "ATTACHES_TO" ->
            [src |-> "EBSVolume", skey |-> "volume_id",
             dst |-> "EC2Instance", dkey |-> "instance_id"]
      [] rel_type = "HAS_RULE" ->
            [src |-> "SecurityGroup", skey |-> "group_id",
             dst |-> "SecurityRule", dkey |-> "rule_id"]

\* an endpoint clause that merges: the node is created when nothing matches
MergeEndpoint(ns, label, v) ==
    IF v = NULL THEN ns ELSE MergeNode(ns, label, v)

\* MATCH (x:label {id: v}) of an endpoint: the nodes are left as they are
MatchEndpoint(ns, label, v) == ns

\* MERGE (s)-[r:rel]->(d) SET r.lastupdated = tag, for every matched pair
MergeEdges(es, S, D, rel, tag) ==
    LET hit == {[src |-> s.nid, rel |-> rel, dst |-> d.nid] : s \in S, d \in D}
    IN  {e \in es : [src |-> e.src, rel |-> e.rel, dst |-> e.dst] \notin hit}
          \cup {[src |-> h.src, rel |-> h.rel, dst |-> h.dst, lastupdated |-> tag]
                   : h \in hit}

\* _load_relationship_batch for a known rel_type: one session.run over $batch
RECURSIVE load_relationship_batch(_, _, _, _)
load_relationship_batch(g, rel_type, batch, tag) ==
    IF batch = <<>> THEN g
    ELSE LET def  == RelDef(rel_type)
             item == Head(batch)
             ns   == MatchEndpoint(
                         MatchEndpoint(g.nodes, def.src, Get(item, def.skey)),
                         def.dst, Get(item, def.dkey))
             S    == Match(ns, def.src, Get(item, def.skey))
             D    == Match(ns, def.dst, Get(item, def.dkey))
         IN  load_relationship_batch(
                 [nodes |-> ns, edges |-> MergeEdges(g.edges, S, D, rel_type, tag)],
                 rel_type, Tail(batch), tag)

\* the batches 1..k of load_relationships' loop, all successful
RECURSIVE LoadRelBatches(_, _, _, _, _)
LoadRelBatches(g, rel_type, data, k, tag) ==
    IF k = 0 THEN g
    ELSE load_relationship_batch(LoadRelBatches(g, rel_type, data, k - 1, tag),
                                 rel_type, Batch(data, k), tag)

\* load_relationships(rel_type, data): the store raises at batch `down`
\* (0: never).  An unknown rel_type sends no query and still returns True.
load_relationships(rel_type, data, down) ==
    LET known == rel_type \in RelTypes
        done  == IF down = 0 THEN NumBatches(data) ELSE down - 1
        g     == IF known
                 THEN LoadRelBatches([nodes |-> nodes, edges |-> edges],
                                     rel_type, data, done, update_tag)
                 ELSE [nodes |-> nodes, edges |-> edges]
    IN  /\ down \in 0..NumBatches(data)
        /\ ~known => down = 0
        /\ nodes' = g.nodes
        /\ edges' = g.edges
        /\ ret' = [op |-> "load_relationships", kind |-> rel_type, data |-> data,
                   region |-> NULL, tag |-> update_tag,
                   ok |-> (down = 0),
                   failed_batch |-> down,
                   cause |-> IF down = 0 THEN "none" ELSE "TransientError",
                   attempts |-> IF down = 0 THEN 0 ELSE 1,
                   queries |-> IF ~known THEN 0
                               ELSE IF down = 0 THEN done ELSE done + 1,
                   reported |-> IF down = 0 THEN Len(data) ELSE 0,
                   repeat |-> SameCall("load_relationships", rel_type, data, NULL),
                   after |-> ret.op,
                   error |-> IF down = 0 THEN NoFailure ELSE FailureReport(rel_type),
                   returns |-> <<down = 0>>,
                   limit |-> 0,
                   types |-> {}, summary |-> NoSummary,
                   raised |-> "none", down |-> NoDown, issued |-> <<>>]
        /\ UNCHANGED <<clock, update_tag, rules, pc, run, others>>

----------------------------------------------------------------------------
(* ImprovedNeo4jLoader: the staleness sweeps *)

\* DETACH DELETE of the nodes del: their relationships go with them
DetachDelete(es, del) ==
    {e \in es : \A n \in del : e.src # n.nid /\ e.dst # n.nid}

\* WHERE n.lastupdated < $update_tag, over the given labels
StaleBefore(ns, labels, tag) ==
    {n \in ns : n.label \in labels /\ n.lastupdated < tag}

\* WHERE n.lastupdated <> $UPDATE_TAG, for one label
StaleOther(ns, label, tag) ==
    {n \in ns : n.label = label /\ n.lastupdated # tag}

\* what a sweep leaves to see: it returns None (returns is empty) and has no
\* limit (0) unless the caller's query has one; its failures are only logged
SweepRet(op, types, down) ==
    [NoCall EXCEPT !.op = op, !.types = types, !.tag = update_tag,
                   !.cause = IF down = {} THEN "none" ELSE "store error",
                   !.after = ret.op]

\* cleanup_old_data(node_types): one query per type, against self.update_tag;
\* the types in `down` are those whose query raises (logged, loop goes on).
cleanup_old_data(node_types, down) ==
    LET del == StaleBefore(nodes, node_types \ down, update_tag)
    IN  /\ down \subseteq node_types
        /\ nodes' = nodes \ del
        /\ edges' = DetachDelete(edges, del)
        /\ ret' = SweepRet("cleanup_old_data", node_types, down)
        /\ UNCHANGED <<clock, update_tag, rules, pc, run, others>>

\* cleanup_old_data_advanced(node_labels, limit_size): one transaction per
\* label, against a tag read from the clock when the sweep starts; each
\* deletes at most limit_size nodes (WITH n LIMIT), whichever the store picks.
cleanup_old_data_advanced(node_labels, limit_size, down) ==
    \E del \in SUBSET nodes :
        /\ down \subseteq node_labels
        /\ \A n \in del : n.label \in node_labels \ down
        /\ \A label \in node_labels \ down :
              LET stale  == StaleOther(nodes, label, clock)
                  picked == {n \in del : n.label = label}
              IN  /\ picked \subseteq stale
                  /\ Cardinality(picked) = Min(limit_size, Cardinality(stale))
        /\ nodes' = nodes \ del
        /\ edges' = DetachDelete(edges, del)
        /\ ret' = [SweepRet("cleanup_old_data_advanced", node_labels, down)
                      EXCEPT !.limit = limit_size]
        /\ UNCHANGED <<clock, update_tag, rules, pc, run, others>>

----------------------------------------------------------------------------
(* security_rules_engine.py: the rules' graph patterns *)

\* the characters of the PortRange strings the model uses
Chars(str) ==
    CASE str = "22"      -> <<"2", "2">>
      [] str = "80"      -> <<"8", "0">>
      [] str = "2222"    -> <<"2", "2", "2", "2">>
      [] str = "3389"    -> <<"3", "3", "8", "9">>
      [] str = "0-65535" -> <<"0", "-", "6", "5", "5", "3", "5">>
      [] OTHER           -> <<>>

\* Cypher's  a CONTAINS b  on strings: b is a substring of a; null gives null
Contains(a, b) ==
    /\ a # NULL
    /\ \E i \in 1..(Len(Chars(a)) - Len(Chars(b)) + 1) :
          SubSeq(Chars(a), i, i + Len(Chars(b)) - 1) = Chars(b)

\* a node with the label
Labelled(ns, label) == {n \in ns : n.label = label}

\* the pattern (s)-[:rel]->(d)
Edge(es, s, rel, d) ==
    \E e \in es : e.rel = rel /\ e.src = s.nid /\ e.dst = d.nid

\* the WHERE clause the three firewall rules share
OpenInbound(rule) ==
    /\ Get(rule.props, "SourceCIDR") = "0.0.0.0/0"
    /\ Get(rule.props, "Protocol") = "tcp"
    /\ Get(rule.props, "Direction") = "inbound"

\* the rows of ExposedSSHRule / ExposedRDPSRule .get_cypher_query
ExposedPortRows(ns, es, port) ==
    {row \in [instance : Labelled(ns, "EC2Instance"),
              sg : Labelled(ns, "SecurityGroup"),
              rule : Labelled(ns, "SecurityRule")] :
        /\ Edge(es, row.instance, "IS_MEMBER_OF", row.sg)
        /\ Edge(es, row.sg, "HAS_RULE", row.rule)
        /\ OpenInbound(row.rule)
        /\ Contains(Get(row.rule.props, "PortRange"), port)}

\* the rows of OverlyPermissiveRule.get_cypher_query
OverlyPermissiveRows(ns, es) ==
    {row \in [sg : Labelled(ns, "SecurityGroup"),
              rule : Labelled(ns, "SecurityRule")] :
        /\ Edge(es, row.sg, "HAS_RULE", row.rule)
        /\ OpenInbound(row.rule)
        /\ Get(row.rule.props, "PortRange") = "0-65535"}

\* the rows of UnencryptedEBSRule.get_cypher_query
UnencryptedEBSRows(ns, es) ==
    {row \in [volume : Labelled(ns, "EBSVolume")] :
        /\ Get(row.volume.props, "Encrypted") = "false"
        /\ Get(row.volume.props, "State") = "in-use"}

\* the rows of OrphanedEBSRule.get_cypher_query
OrphanedEBSRows(ns, es) ==
    {row \in [volume : Labelled(ns, "EBSVolume")] :
        /\ ~\E i \in Labelled(ns, "EC2Instance") :
               Edge(es, row.volume, "ATTACHES_TO", i)
        /\ Get(row.volume.props, "State") = "available"}

\* the rows of UnusedSecurityGroupRule.get_cypher_query
UnusedSecurityGroupRows(ns, es) ==
    {row \in [sg : Labelled(ns, "SecurityGroup")] :
        ~\E i \in Labelled(ns, "EC2Instance") :
            Edge(es, i, "IS_MEMBER_OF", row.sg)}

\* the rows of NetworkSegmentationRule.get_cypher_query; the OPTIONAL MATCH
\* only feeds count(instance)
NetworkSegmentationRows(ns, es) ==
    {row \in [vpc : Labelled(ns, "VPC"), subnet : Labelled(ns, "Subnet")] :
        Edge(es, row.vpc, "CONTAINS", row.subnet)}

\* the rows of CustomSecurityRule.get_cypher_query
CustomRows(ns, es) ==
    {row \in [instance : Labelled(ns, "EC2Instance")] :
        /\ Get(row.instance.props, "State") = "running"
        /\ Get(row.instance.props, "PublicIpAddress") # NULL}

\* the severity each rule class passes to SecurityRule.__init__
RuleSeverity(rule_id) ==
    CASE rule_id \in {"EXPOSED_SSH", "EXPOSED_RDP"} -> "HIGH"
      [] rule_id = "OVERLY_PERMISSIVE" -> "CRITICAL"
      [] rule_id \in {"UNENCRYPTED_EBS", "NETWORK_SEGMENTATION"} -> "MEDIUM"
      [] rule_id \in {"ORPHANED_EBS", "UNUSED_SECURITY_GROUP"} -> "LOW"
      [] OTHER -> "MEDIUM"

\* the query rows of the rule with the given rule_id
RuleRows(rule_id, ns, es) ==
    CASE rule_id = "EXPOSED_SSH" -> ExposedPortRows(ns, es, "22")
      [] rule_id = "EXPOSED_RDP" -> ExposedPortRows(ns, es, "3389")
      [] rule_id = "OVERLY_PERMISSIVE" -> OverlyPermissiveRows(ns, es)
      [] rule_id = "UNENCRYPTED_EBS" -> UnencryptedEBSRows(ns, es)
      [] rule_id = "ORPHANED_EBS" -> OrphanedEBSRows(ns, es)
      [] rule_id = "UNUSED_SECURITY_GROUP" -> UnusedSecurityGroupRows(ns, es)
      [] rule_id = "NETWORK_SEGMENTATION" -> NetworkSegmentationRows(ns, es)
      [] rule_id = "CUSTOM_RULE" -> CustomRows(ns, es)
      [] OTHER -> {}

\* the resource a row reports first: its instance, group, volume or subnet
Primary(row) ==
    IF "instance" \in DOMAIN row THEN row.instance
    ELSE IF "sg" \in DOMAIN row THEN row.sg
    ELSE IF "volume" \in DOMAIN row THEN row.volume
    ELSE row.subnet

\* rule.evaluate(self.session): one affected resource per row of the query,
\* and one finding when there is any
evaluate(rule_id, ns, es) ==
    LET affected_resources ==
            {[type |-> Primary(row).label, id |-> Get(Primary(row).props, "id"),
              row |-> row] : row \in RuleRows(rule_id, ns, es)}
    IN  IF affected_resources # {}
        THEN <<[rule_id |-> rule_id, severity |-> RuleSeverity(rule_id),
                affected_resources |-> affected_resources,
                count |-> Cardinality(affected_resources)]>>
        ELSE <<>>

\* the analysis types run_analysis_advanced has a query for
AnalysisTypes ==
    {"security", "exposed_ssh", "overly_permissive", "unused_security_groups",
     "orphaned_volumes", "cost", "cost_optimization"}

\* the property the SET clause of the analysis type's query sets to true
AnalysisFlag(analysis_type) ==
    CASE analysis_type \in {"security", "exposed_ssh"} -> "exposed_ssh"
      [] analysis_type = "overly_permissive" -> "overly_permissive"
      [] analysis_type = "unused_security_groups" -> "unused"
      [] analysis_type = "orphaned_volumes" -> "orphaned"
      [] analysis_type \in {"cost", "cost_optimization"} ->
            "cost_optimization_candidate"

\* the WHERE clause of the 'security' and 'overly_permissive' queries
OpenTcp(rule) ==
    /\ Get(rule.props, "SourceCIDR") = "0.0.0.0/0"
    /\ Get(rule.props, "Protocol") = "tcp"

\* the nodes the MATCH ... WHERE of the analysis type's query binds to the
\* variable its SET clause writes, for all that the query itself decides
AnalysisMatch(analysis_type, ns, es) ==
    CASE analysis_type \in {"security", "exposed_ssh"} ->
            {i \in Labelled(ns, "EC2Instance") :
                \E sg \in Labelled(ns, "SecurityGroup"),
                   rule \in Labelled(ns, "Rule") :
                    /\ Edge(es, i, "MEMBER_OF", sg)
                    /\ Edge(es, sg, "HAS_RULE", rule)
                    /\ OpenTcp(rule)
                    /\ Contains(Get(rule.props, "PortRange"), "22")}
      [] analysis_type = "overly_permissive" ->
            {sg \in Labelled(ns, "SecurityGroup") :
                \E rule \in Labelled(ns, "Rule") :
                    /\ Edge(es, sg, "HAS_RULE", rule)
                    /\ OpenTcp(rule)
                    /\ Get(rule.props, "PortRange") = "0-65535"}
      [] analysis_type = "unused_security_groups" ->
            {sg \in Labelled(ns, "SecurityGroup") :
                /\ ~\E i \in Labelled(ns, "EC2Instance") :
                       Edge(es, i, "MEMBER_OF", sg)
                /\ ~\E g \in Labelled(ns, "SecurityGroup") :
                       Edge(es, g, "SOURCE_SECURITY_GROUP", sg)}
      [] analysis_type = "orphaned_volumes" ->
            {v \in Labelled(ns, "EBSVolume") :
                /\ ~\E i \in Labelled(ns, "EC2Instance") :
                       Edge(es, v, "ATTACHES_TO", i)
                /\ Get(v.props, "State") = "available"}
      [] analysis_type \in {"cost", "cost_optimization"} ->
            {i \in Labelled(ns, "EC2Instance") :
                Get(i.props, "State") = "stopped"}

\* SET n.<flag> = true where the flag is an ingested field
SetState(n, flag) == [n EXCEPT !.props = SetProp(@, "State", "true")]

\* SET n.<flag> = true
SetFlag(n, flag) == [n EXCEPT !.props = SetProp(@, flag, "true")]

\* run_analysis_advanced(analysis_type): an unknown type sends no query; the
\* query runs in one write transaction, which either commits its SET on every
\* matched node or raises (down) and leaves the graph as it was.  Which
\* stopped instances pass the LaunchTime comparison of the cost queries is
\* for the store to say.
run_analysis_advanced(analysis_type, down) ==
    LET known == analysis_type \in AnalysisTypes
        match == IF known /\ ~down
                 THEN AnalysisMatch(analysis_type, nodes, edges) ELSE {}
    IN  /\ down => known
        /\ \E hit \in SUBSET match :
              /\ analysis_type \notin {"cost", "cost_optimization"}
                    => hit = match
              /\ nodes' = (nodes \ hit)
                    \cup {SetFlag(n, AnalysisFlag(analysis_type)) : n \in hit}
              /\ ret' = [NoCall EXCEPT !.op = "run_analysis_advanced",
                                       !.kind = analysis_type,
                                       !.tag = update_tag,
                                       !.cause = IF down THEN "store error"
                                                 ELSE "none",
                                       !.reported = Cardinality(hit),
                                       !.after = ret.op]
        /\ UNCHANGED <<clock, update_tag, edges, rules, pc, run, others>>

\* one rule evaluated against the loader's session, outside the engine
EvaluateRule(rule_id) ==
    /\ ret' = [NoCall EXCEPT !.op = "evaluate", !.kind = rule_id,
                             !.data = evaluate(rule_id, nodes, edges),
                             !.tag = update_tag, !.after = ret.op]
    /\ UNCHANGED <<clock, update_tag, nodes, edges, rules, pc, run, others>>

----------------------------------------------------------------------------
(* The clock and the loader's construction *)

\* a second passes
Tick ==
    /\ clock < MaxTime
    /\ clock' = clock + 1
    /\ UNCHANGED <<update_tag, nodes, edges, ret, rules, pc, run, others>>

\* a loader that was constructed at any time up to now takes over
OldLoader ==
    /\ \E t \in 1..clock : t # update_tag /\ update_tag' = t
    /\ UNCHANGED <<clock, nodes, edges, ret, rules, pc, run, others>>

\* ImprovedNeo4jLoader.__init__: self.update_tag = int(time.time())
NewLoader ==
    /\ update_tag # clock
    /\ update_tag' = clock
    /\ UNCHANGED <<clock, nodes, edges, ret, rules, pc, run, others>>

\* the engine's variables while only the loader is exercised
EngineIdle ==
    /\ rules = <<>>
    /\ pc = <<>>
    /\ run = <<>>

----------------------------------------------------------------------------
(* Specification of node ingestion: load_nodes over one loader after another *)

\* the records offered to load_nodes, as the _extract_* methods build them:
\* every key present, None where the source has no value; "State" stands for
\* every non-identity field
IngestRecords ==
    { [id |-> "a", State |-> "running"],
      [id |-> "a", State |-> NULL],
      [id |-> NULL, State |-> "stopped"] }

IngestData == UNION {[1..n -> IngestRecords] : n \in 0..MaxRecords}

LoadNodes ==
    \E data \in IngestData :
        \E down \in 0..NumBatches(data) :
            load_nodes("EC2Instance", data, "us-east-1", down)

InitIngest ==
    /\ clock = 1
    /\ update_tag = 1
    /\ nodes = {}
    /\ edges = {}
    /\ ret = NoCall
    /\ LoaderReady
    /\ EngineIdle

NextIngest == LoadNodes

SpecIngest == InitIngest /\ [][NextIngest]_vars


----------------------------------------------------------------------------
(* Claims on node ingestion, checked under SpecIngest *)

\* C1: a successful load_nodes call that repeats the previous successful call
\* (same kind, same records, same region, same update_tag) leaves every node
\* as it was: same node count, same properties, same tag.
C1_IngestIdempotent ==
    [][(ret'.op = "load_nodes" /\ ret'.repeat /\ ret'.ok) => nodes' = nodes]_vars

C1_Witness ==
    /\ ret.op = "load_nodes" /\ ret.repeat /\ ret.ok
    /\ Len(ret.data) >= 2
    /\ nodes # {}

\* C8: no node has a null id and no two nodes of one label share an id; a batch
\* holding a record without identity is refused by the store.
C8_IdentityUnique ==
    \A n \in nodes :
        /\ Get(n.props, "id") # NULL
        /\ \A m \in nodes :
              (m.label = n.label /\ Get(m.props, "id") = Get(n.props, "id"))
                  => m = n

C8_Witness ==
    /\ ret.op = "load_nodes" /\ ret.cause = "null id"
    /\ nodes # {}

\* the well-formed records of a call
WellFormed(data) == {i \in 1..Len(data) : Get(data[i], "id") # NULL}

\* C9 (as claimed): when the store itself does not fail, load_nodes upserts
\* every well-formed record of its data, whatever malformed records sit in
\* the same or in earlier batches, and does not report a wholesale failure.
C9_DataErrorsDoNotAbort ==
    (ret.op = "load_nodes" /\ ret.cause # "TransientError")
        => /\ ret.ok
           /\ \A i \in WellFormed(ret.data) :
                 Match(nodes, ret.kind, ret.data[i]["id"]) # {}

\* LoadConfig.max_retries
max_retries == 5

\* C10 (as claimed): a load_nodes call fails on a transient store error only
\* after retrying, with at most max_retries attempts on the failing batch.
C10_TransientRetried ==
    (ret.op = "load_nodes" /\ ret.cause = "TransientError")
        => (ret.attempts > 1 /\ ret.attempts <= max_retries)

\* the records of the batches before batch k
Before(data, k) == 1..Min((k - 1) * BatchSize, Len(data))

\* C11 (as claimed): when batch k of a load_nodes call fails, the nodes of
\* the batches before k are in the graph, and the failure handed to the
\* caller names the kind and the batch index k.
C11_FailureNamesBatch ==
    (ret.op = "load_nodes" /\ ret.failed_batch > 0)
        => /\ \A i \in Before(ret.data, ret.failed_batch) :
                 Match(nodes, ret.kind, ret.data[i]["id"]) # {}
           /\ ret.error.kind = ret.kind
           /\ ret.error.batchIndex = ret.failed_batch

----------------------------------------------------------------------------
(* Specification of relationship ingestion: instances and a security group
   are loaded, membership pairs are loaded before or after their endpoints *)

InstanceA == [id |-> "a", State |-> "running"]
InstanceB == [id |-> "b", State |-> "running"]
GroupG    == [id |-> "g", GroupName |-> "web"]

RelNodeInputs ==
    { [kind |-> "EC2Instance", data |-> <<InstanceA>>],
      [kind |-> "EC2Instance", data |-> <<InstanceA, InstanceB>>],
      [kind |-> "SecurityGroup", data |-> <<GroupG>>] }

MemberPairs ==
    { [instance_id |-> "a", group_id |-> "g"],
      [instance_id |-> "b", group_id |-> "g"] }

RelData == UNION {[1..n -> MemberPairs] : n \in 0..MaxRecords}

RelLoadNodes ==
    \E in \in RelNodeInputs :
        \E down \in 0..NumBatches(in.data) :
            load_nodes(in.kind, in.data, "us-east-1", down)

RelLoadRelationships ==
    \E rel_type \in {"IS_MEMBER_OF", "MEMBER_OF"}, data \in RelData :
        \E down \in 0..NumBatches(data) :
            load_relationships(rel_type, data, down)

InitRel ==
    /\ clock = 1
    /\ update_tag = 1
    /\ nodes = {}
    /\ edges = {}
    /\ ret = NoCall
    /\ LoaderReady
    /\ EngineIdle

NextRel == RelLoadNodes \/ RelLoadRelationships

SpecRel == InitRel /\ [][NextRel]_vars

----------------------------------------------------------------------------
(* Claims on relationship ingestion, checked under SpecRel *)

\* both endpoints of a pair match a node
Resolved(ns, rel_type, item) ==
    /\ Match(ns, RelDef(rel_type).src, Get(item, RelDef(rel_type).skey)) # {}
    /\ Match(ns, RelDef(rel_type).dst, Get(item, RelDef(rel_type).dkey)) # {}

\* the pair has its edge
HasEdge(ns, es, rel_type, item) ==
    \E s \in Match(ns, RelDef(rel_type).src, Get(item, RelDef(rel_type).skey)),
       d \in Match(ns, RelDef(rel_type).dst, Get(item, RelDef(rel_type).dkey)) :
        \E e \in es : e.src = s.nid /\ e.rel = rel_type /\ e.dst = d.nid

Unresolved(ns, rel_type, data) ==
    {i \in 1..Len(data) : ~Resolved(ns, rel_type, data[i])}

\* C6 (as claimed): when the store does not fail, load_relationships succeeds,
\* gives every resolved pair its edge and no unresolved pair one, and the
\* pairs it does not report as loaded (the skipped count) are exactly the
\* unresolved ones.
C6_UnresolvedSkippedAndCounted ==
    (ret.op = "load_relationships" /\ ret.kind \in RelTypes /\ ret.cause = "none")
        => /\ ret.ok
           /\ \A i \in 1..Len(ret.data) :
                 Resolved(nodes, ret.kind, ret.data[i])
                     <=> HasEdge(nodes, edges, ret.kind, ret.data[i])
           /\ Len(ret.data) - ret.reported
                 = Cardinality(Unresolved(nodes, ret.kind, ret.data))

\* C7: a load_relationships call leaves the set of nodes, properties included,
\* as it was, and every edge it adds joins two nodes that existed before it.
C7_RelationshipsCreateNoNode ==
    [][ret'.op = "load_relationships"
          => /\ nodes' = nodes
             /\ \A e \in edges' \ edges :
                   \E s \in nodes, d \in nodes : s.nid = e.src /\ d.nid = e.dst]_vars

C7_Witness ==
    /\ ret.op = "load_relationships" /\ ret.kind = "IS_MEMBER_OF" /\ ret.ok
    /\ edges # {}
    /\ Unresolved(nodes, ret.kind, ret.data) # {}


----------------------------------------------------------------------------
(* Specification of the sweeps: passes of one loader after another over two
   instances and their security group, each followed or not by a sweep *)

SweepNodeInputs ==
    { [kind |-> "EC2Instance", data |-> <<InstanceA, InstanceB>>],
      [kind |-> "EC2Instance", data |-> <<InstanceA>>],
      [kind |-> "SecurityGroup", data |-> <<GroupG>>] }

SweepLoadNodes ==
    \E in \in SweepNodeInputs : load_nodes(in.kind, in.data, "us-east-1", 0)

SweepLoadRelationships ==
    load_relationships("IS_MEMBER_OF",
        << [instance_id |-> "a", group_id |-> "g"],
           [instance_id |-> "b", group_id |-> "g"] >>, 0)

\* node_types = None: list(get_all_schemas().keys())
Cleanup ==
    \E down \in {{}, {"EC2Instance"}} : cleanup_old_data(SCHEMA_REGISTRY, down)

\* limit_size = 1000 by default
DefaultLimit == 1000

CleanupAdvanced ==
    \E limit_size \in {1, DefaultLimit}, down \in {{}, {"EC2Instance"}} :
        cleanup_old_data_advanced({"EC2Instance", "SecurityGroup"}, limit_size, down)

InitSweep ==
    /\ clock = 1
    /\ update_tag = 1
    /\ nodes = {}
    /\ edges = {}
    /\ ret = NoCall
    /\ LoaderReady
    /\ EngineIdle

NextSweep ==
    \/ Tick
    \/ NewLoader
    \/ SweepLoadNodes
    \/ SweepLoadRelationships
    \/ Cleanup
    \/ CleanupAdvanced

SpecSweep == InitSweep /\ [][NextSweep]_vars

\* the nodes of the swept labels that the current pass has not stamped
NotReingested(ns, labels) ==
    {n \in ns : n.label \in labels /\ n.lastupdated # update_tag}

\* C2 (as claimed): when a pass has re-ingested some nodes of the swept labels
\* and left exactly one node with an older tag, a sweep whose queries all
\* succeed (cleanup_old_data or cleanup_old_data_advanced) removes exactly
\* that node and its incident edges and leaves every other node as it was.
C2_SweepRemovesExactlyStale ==
    [][(/\ ret'.op \in {"cleanup_old_data", "cleanup_old_data_advanced"}
        /\ ret'.cause = "none"
        /\ Cardinality(NotReingested(nodes, ret'.types)) = 1
        /\ \E n \in nodes : n.label \in ret'.types /\ n.lastupdated = update_tag)
          => /\ nodes' = nodes \ NotReingested(nodes, ret'.types)
             /\ edges' = DetachDelete(edges, NotReingested(nodes, ret'.types))]_vars

\* C13: the lastupdated of a node or an edge never decreases from one step
\* to the next, no entity carries a tag above the loader's, and so the
\* entities whose tag is not the loader's are exactly those cleanup_old_data
\* looks for (lastupdated < update_tag).
C13_TagMonotone ==
    [][/\ \A n \in nodes, m \in nodes' :
             (m.nid = n.nid /\ m.label = n.label
                 /\ Get(m.props, "id") = Get(n.props, "id"))
                => m.lastupdated >= n.lastupdated
       /\ \A e \in edges, f \in edges' :
             (f.src = e.src /\ f.rel = e.rel /\ f.dst = e.dst)
                => f.lastupdated >= e.lastupdated
       /\ \A n \in nodes' : n.lastupdated <= update_tag'
       /\ \A e \in edges' : e.lastupdated <= update_tag'
       /\ (StaleBefore(nodes, SCHEMA_REGISTRY, update_tag)
              = NotReingested(nodes, SCHEMA_REGISTRY))']_vars

\* a later pass has stamped an instance and an edge again and left another
\* instance with the tag of the pass before
C13_Witness ==
    /\ update_tag > 1
    /\ \E n \in nodes : n.label = "EC2Instance" /\ n.lastupdated = update_tag
    /\ \E n \in nodes : n.label = "EC2Instance" /\ n.lastupdated < update_tag
    /\ \E e \in edges : e.lastupdated = update_tag

\* C12 (as claimed): a sweep whose queries all succeed deletes only nodes of
\* the given kinds whose tag differs from the loader's tag, at most its limit
\* of them per kind, and returns the number it deleted; when it deletes
\* nothing, no node of those kinds carries another tag than the loader's.
C12_SweepBoundedConverges ==
    [][(/\ ret'.op \in {"cleanup_old_data", "cleanup_old_data_advanced"}
        /\ ret'.cause = "none")
          => LET deleted == nodes \ nodes'
             IN  /\ \A n \in deleted :
                       n.label \in ret'.types /\ n.lastupdated # update_tag
                 /\ ret'.limit > 0
                 /\ \A label \in ret'.types :
                       Cardinality({n \in deleted : n.label = label})
                          <= ret'.limit
                 /\ ret'.returns = <<Cardinality(deleted)>>
                 /\ (deleted = {} => NotReingested(nodes', ret'.types) = {})]_vars


----------------------------------------------------------------------------
(* Specification of a detached membership: an instance, its security group
   and the group's rule are loaded pass after pass, with or without the
   membership pair; the sweep and the exposed-SSH rule run in between *)

RuleR ==
    [id |-> "r", GroupId |-> "g", Protocol |-> "tcp", PortRange |-> "22",
     SourceCIDR |-> "0.0.0.0/0", Direction |-> "inbound"]

DetachNodeInputs ==
    { [kind |-> "EC2Instance", data |-> <<InstanceA>>, region |-> "us-east-1"],
      [kind |-> "SecurityGroup", data |-> <<GroupG>>, region |-> "us-east-1"],
      [kind |-> "SecurityRule", data |-> <<RuleR>>, region |-> NULL] }

DetachRelInputs ==
    { [rel |-> "IS_MEMBER_OF",
       data |-> <<[instance_id |-> "a", group_id |-> "g"]>>],
      [rel |-> "HAS_RULE",
       data |-> <<[group_id |-> "g", rule_id |-> "r"]>>] }

DetachLoadNodes ==
    \E in \in DetachNodeInputs : load_nodes(in.kind, in.data, in.region, 0)

DetachLoadRelationships ==
    \E in \in DetachRelInputs : load_relationships(in.rel, in.data, 0)

DetachCleanup == cleanup_old_data(SCHEMA_REGISTRY, {})

DetachEvaluate == EvaluateRule("EXPOSED_SSH")

InitDetach ==
    /\ clock = 1
    /\ update_tag = 1
    /\ nodes = {}
    /\ edges = {}
    /\ ret = NoCall
    /\ LoaderReady
    /\ EngineIdle

NextDetach ==
    \/ Tick
    \/ NewLoader
    \/ DetachLoadNodes
    \/ DetachLoadRelationships
    \/ DetachCleanup
    \/ DetachEvaluate

SpecDetach == InitDetach /\ [][NextDetach]_vars

\* an instance the current pass re-ingested without any membership pair
Detached(i) ==
    /\ i.label = "EC2Instance"
    /\ i.lastupdated = update_tag
    /\ \A e \in edges :
          (e.rel = "IS_MEMBER_OF" /\ e.src = i.nid) => e.lastupdated # update_tag

\* C3 (as claimed): when the exposed-SSH rule is evaluated right after a
\* sweep, an instance that the current pass re-ingested without a membership
\* pair has no IS_MEMBER_OF edge left and is in no finding of the rule.
C3_DetachedEdgeSwept ==
    (ret.op = "evaluate" /\ ret.kind = "EXPOSED_SSH"
                         /\ ret.after = "cleanup_old_data")
        => \A i \in nodes :
              Detached(i) =>
                 /\ \A e \in edges : ~(e.rel = "IS_MEMBER_OF" /\ e.src = i.nid)
                 /\ \A k \in 1..Len(ret.data) :
                       \A r \in ret.data[k].affected_resources :
                           r.id # Get(i.props, "id")

----------------------------------------------------------------------------
(* SecurityRulesEngine: run_analysis, one rule at a time *)

\* how many callers share one engine
NumCallers == 2

\* SecurityRulesEngine._load_default_rules, in registration order
DefaultRules ==
    <<"EXPOSED_SSH", "EXPOSED_RDP", "OVERLY_PERMISSIVE", "UNENCRYPTED_EBS",
      "ORPHANED_EBS", "UNUSED_SECURITY_GROUP", "NETWORK_SEGMENTATION">>

Range(seq) == {seq[k] : k \in 1..Len(seq)}

\* a caller that has not called run_analysis yet
NoRun ==
    [rule_ids |-> NULL, rules_to_run |-> <<>>, i |-> 1, all_findings |-> <<>>,
     log |-> <<>>, returned |-> FALSE, raised |-> FALSE]

\* the rule_ids that are registered, in the order the caller gave them
rules_as_requested(rule_ids) ==
    IF rule_ids = NULL THEN rules
    ELSE SelectSeq(rule_ids, LAMBDA rule_id : rule_id \in Range(rules))

\* rules_to_run: self.rules, or the rules of self.rules whose rule_id is in
\* rule_ids
rules_to_run_of(rule_ids) ==
    IF rule_ids = NULL THEN rules
    ELSE SelectSeq(rules, LAMBDA rule_id : rule_id \in Range(rule_ids))

\* run_analysis up to the loop: rules_to_run is chosen; all_findings = []
run_analysis(t, rule_ids) ==
    /\ pc[t] = "idle"
    /\ pc' = [pc EXCEPT ![t] = "running"]
    /\ run' = [run EXCEPT ![t] = [NoRun EXCEPT !.rule_ids = rule_ids,
                                        !.rules_to_run = rules_to_run_of(rule_ids)]]
    /\ UNCHANGED <<clock, update_tag, nodes, edges, ret, rules, others>>

\* add_rule(rule): self.rules.append(rule)
add_rule(rule) ==
    /\ rules' = Append(rules, rule)
    /\ UNCHANGED <<clock, update_tag, nodes, edges, ret, pc, run, others>>

\* remove_rule(rule_id): every rule with that rule_id leaves self.rules
remove_rule(rule_id) ==
    /\ rules' = SelectSeq(rules, LAMBDA rule : rule # rule_id)
    /\ UNCHANGED <<clock, update_tag, nodes, edges, ret, pc, run, others>>

\* the loop's next rule
NextRule(t) == run[t].rules_to_run[run[t].i]

\* an exception that leaves the loop and the call
except_none(r, rule_id) ==
    [r EXCEPT !.log = Append(@, [rule_id |-> rule_id, raised |-> TRUE]),
              !.i = Len(r.rules_to_run) + 1,
              !.raised = TRUE]

\* except Exception as e: logger.error(...); the loop goes on
except_Exception(r, rule_id) ==
    [r EXCEPT !.log = Append(@, [rule_id |-> rule_id, raised |-> TRUE]),
              !.i = @ + 1]

\* one iteration whose rule.evaluate(self.session) returns
evaluate_returns(t) ==
    /\ pc[t] = "running"
    /\ run[t].i <= Len(run[t].rules_to_run)
    /\ LET findings == evaluate(NextRule(t), nodes, edges)
       IN  run' = [run EXCEPT ![t] =
                     [@ EXCEPT !.all_findings = @ \o findings,
                               !.log = Append(@, [rule_id |-> NextRule(t),
                                                  raised |-> FALSE]),
                               !.i = @ + 1]]
    /\ UNCHANGED <<clock, update_tag, nodes, edges, ret, rules, pc, others>>

\* one iteration whose rule.evaluate(self.session) raises
evaluate_raises(t) ==
    /\ pc[t] = "running"
    /\ run[t].i <= Len(run[t].rules_to_run)
    /\ run' = [run EXCEPT ![t] = except_Exception(@, NextRule(t))]
    /\ UNCHANGED <<clock, update_tag, nodes, edges, ret, rules, pc, others>>

\* the loop is over: return all_findings
run_analysis_return(t) ==
    /\ pc[t] = "running"
    /\ run[t].i > Len(run[t].rules_to_run)
    /\ pc' = [pc EXCEPT ![t] = "idle"]
    /\ run' = [run EXCEPT ![t].returned = TRUE]
    /\ UNCHANGED <<clock, update_tag, nodes, edges, ret, rules, others>>

\* an EBS volume nothing attaches to
VolumeV == [id |-> "v", State |-> "available", Encrypted |-> "false"]

\* the graph after one pass of the loader at tag 1 over instance a, group g,
\* rule r and the given volumes, with a in g and r on g
EngineGraph(volumes) ==
    LET n1 == LoadBatches({}, "EC2Instance", <<InstanceA>>, 1, 1, "us-east-1")
        n2 == LoadBatches(n1, "SecurityGroup", <<GroupG>>, 1, 1, "us-east-1")
        n3 == LoadBatches(n2, "SecurityRule", <<RuleR>>, 1, 1, NULL)
        n4 == LoadBatches(n3, "EBSVolume", volumes, NumBatches(volumes), 1,
                          "us-east-1")
        g1 == LoadRelBatches([nodes |-> n4, edges |-> {}], "IS_MEMBER_OF",
                             <<[instance_id |-> "a", group_id |-> "g"]>>, 1, 1)
    IN  LoadRelBatches(g1, "HAS_RULE",
                       <<[group_id |-> "g", rule_id |-> "r"]>>, 1, 1)

\* SecurityRulesEngine.__init__ over a session on a loaded graph
InitEngine(callers) ==
    /\ clock = 1
    /\ update_tag = 1
    /\ \E volumes \in {<<>>, <<VolumeV>>} :
          /\ nodes = EngineGraph(volumes).nodes
          /\ edges = EngineGraph(volumes).edges
    /\ ret = NoCall
    /\ LoaderReady
    /\ rules = DefaultRules
    /\ pc = [t \in callers |-> "idle"]
    /\ run = [t \in callers |-> NoRun]

----------------------------------------------------------------------------
(* Specification of the engine with one caller *)

EngineRuleIds ==
    {NULL, <<"ORPHANED_EBS", "EXPOSED_SSH">>, <<"EXPOSED_SSH", "NO_SUCH_RULE">>}

EngineCall == \E rule_ids \in EngineRuleIds : run_analysis(1, rule_ids)

EngineReturns == evaluate_returns(1)

EngineRaises == evaluate_raises(1)

EngineReturn == run_analysis_return(1)

InitOneCaller == InitEngine({1})

NextEngine ==
    \/ EngineCall
    \/ EngineReturns
    \/ EngineRaises
    \/ EngineReturn

SpecEngine == InitOneCaller /\ [][NextEngine]_vars

\* the findings of the rules of rules_to_run[1..k] that the log does not
\* mark as raised, in order
RECURSIVE FindingsOfSucceeded(_, _, _)
FindingsOfSucceeded(rules_to_run, log, k) ==
    IF k = 0 THEN <<>>
    ELSE FindingsOfSucceeded(rules_to_run, log, k - 1)
            \o (IF log[k].raised THEN <<>>
                ELSE evaluate(rules_to_run[k], nodes, edges))

\* C4: a run_analysis call that has ended did not propagate an exception,
\* evaluated every rule of its rule set, also those after a rule that
\* raised, and returned exactly the findings of the rules that did not
\* raise, in rule order.
C4_RuleIsolation ==
    \A t \in DOMAIN run :
        run[t].returned =>
            /\ ~run[t].raised
            /\ Len(run[t].log) = Len(run[t].rules_to_run)
            /\ \A k \in 1..Len(run[t].log) :
                  run[t].log[k].rule_id = run[t].rules_to_run[k]
            /\ run[t].all_findings =
                  FindingsOfSucceeded(run[t].rules_to_run, run[t].log,
                                      Len(run[t].rules_to_run))

\* a run over all seven rules has ended in which the second and the fourth
\* rule raised, and the rules before and after them contributed their finding
C4_Witness ==
    /\ run[1].returned
    /\ Len(run[1].rules_to_run) = 7
    /\ run[1].log[2].raised /\ run[1].log[4].raised
    /\ ~run[1].log[1].raised /\ ~run[1].log[5].raised
    /\ Len(run[1].all_findings) = 2
    /\ run[1].all_findings[1].rule_id = "EXPOSED_SSH"
    /\ run[1].all_findings[2].rule_id = "ORPHANED_EBS"

----------------------------------------------------------------------------
(* Specification of the engine shared by several callers *)

Callers == 1..NumCallers

ConcurrentCall ==
    \E t \in Callers : run_analysis(t, <<"EXPOSED_SSH", "ORPHANED_EBS">>)

ConcurrentReturns == \E t \in Callers : evaluate_returns(t)

ConcurrentRaises == \E t \in Callers : evaluate_raises(t)

ConcurrentReturn == \E t \in Callers : run_analysis_return(t)

InitConcurrent == InitEngine(Callers)

NextConcurrent ==
    \/ ConcurrentCall
    \/ ConcurrentReturns
    \/ ConcurrentRaises
    \/ ConcurrentReturn

SpecConcurrent == InitConcurrent /\ [][NextConcurrent]_vars

\* C5 (as claimed): at most one run_analysis call is in its loop at a time;
\* a call that starts while another is running evaluates no rule.
C5_SingleInFlight ==
    Cardinality({t \in DOMAIN pc : pc[t] = "running"}) <= 1

----------------------------------------------------------------------------
(* Specification of the analysis entry points over one loaded graph: the
   engine's run_analysis and the loader's run_analysis_advanced *)

\* a stopped instance
InstanceS == [id |-> "s", State |-> "stopped"]

AnalysisRuleIds ==
    {<<"EXPOSED_SSH", "ORPHANED_EBS">>, <<"UNUSED_SECURITY_GROUP">>}

AnalysisCall == \E rule_ids \in AnalysisRuleIds : run_analysis(1, rule_ids)

AnalysisAdvanced ==
    \E analysis_type \in AnalysisTypes \cup {"no_such_analysis"},
       down \in BOOLEAN :
        run_analysis_advanced(analysis_type, down)

InitAnalysis ==
    /\ clock = 1
    /\ update_tag = 1
    /\ nodes = LoadBatches(EngineGraph(<<VolumeV>>).nodes, "EC2Instance",
                           <<InstanceS>>, 1, 1, "us-east-1")
    /\ edges = EngineGraph(<<VolumeV>>).edges
    /\ ret = NoCall
    /\ LoaderReady
    /\ rules = DefaultRules
    /\ pc = [t \in {1} |-> "idle"]
    /\ run = [t \in {1} |-> NoRun]

NextAnalysis ==
    \/ AnalysisCall
    \/ EngineReturns
    \/ EngineRaises
    \/ EngineReturn
    \/ AnalysisAdvanced

SpecAnalysis == InitAnalysis /\ [][NextAnalysis]_vars

\* the properties the analysis queries derive
DerivedFlags == {AnalysisFlag(t) : t \in AnalysisTypes}

\* the node without its properties
Bare(n) == [nid |-> n.nid, label |-> n.label, lastupdated |-> n.lastupdated]

\* C14: no step of run_analysis or run_analysis_advanced adds or removes a
\* node or an edge or changes a tag, every property a node had keeps its
\* value, and the only properties a node gains are derived flags.
C14_AnalysisReadOnly ==
    [][/\ {Bare(n) : n \in nodes'} = {Bare(n) : n \in nodes}
       /\ edges' = edges
       /\ \A n \in nodes, m \in nodes' :
             m.nid = n.nid
                => /\ \A k \in DOMAIN n.props \ DerivedFlags :
                         k \in DOMAIN m.props /\ m.props[k] = n.props[k]
                   /\ (DOMAIN m.props \ DOMAIN n.props) \subseteq DerivedFlags]_vars

\* run_analysis has returned a finding and run_analysis_advanced has flagged
\* the unattached volume, the security group and the stopped instance
C14_Witness ==
    /\ run[1].returned /\ run[1].all_findings # <<>>
    /\ ret.op = "run_analysis_advanced"
    /\ \E v \in Labelled(nodes, "EBSVolume") : Get(v.props, "orphaned") = "true"
    /\ \E g \in Labelled(nodes, "SecurityGroup") : Get(g.props, "unused") = "true"
    /\ \E i \in Labelled(nodes, "EC2Instance") :
          Get(i.props, "cost_optimization_candidate") = "true"

----------------------------------------------------------------------------
(* Specification of the rule registry: rules are added and removed between
   the runs of one caller; a custom rule's query may fail *)

\* how many rules the registry holds at most
MaxRules == 8

RegistryAdd ==
    /\ pc[1] = "idle"
    /\ Len(rules) < MaxRules
    /\ \E rule \in {"EXPOSED_SSH", "CUSTOM_RULE"} : add_rule(rule)

RegistryRemove ==
    /\ pc[1] = "idle"
    /\ \E rule_id \in {"EXPOSED_SSH", "NO_SUCH_RULE"} : remove_rule(rule_id)

RegistryRuleIds ==
    {NULL, <<"ORPHANED_EBS", "EXPOSED_SSH">>, <<"CUSTOM_RULE", "EXPOSED_RDP">>}

RegistryCall == \E rule_ids \in RegistryRuleIds : run_analysis(1, rule_ids)

RegistryRaises ==
    /\ pc[1] = "running"
    /\ run[1].i <= Len(run[1].rules_to_run)
    /\ NextRule(1) = "CUSTOM_RULE"
    /\ evaluate_raises(1)

InitRegistry ==
    /\ clock = 1
    /\ update_tag = 1
    /\ nodes = EngineGraph(<<VolumeV>>).nodes
    /\ edges = EngineGraph(<<VolumeV>>).edges
    /\ ret = NoCall
    /\ LoaderReady
    /\ rules = DefaultRules
    /\ pc = [t \in {1} |-> "idle"]
    /\ run = [t \in {1} |-> NoRun]

NextRegistry ==
    \/ RegistryAdd
    \/ RegistryRemove
    \/ RegistryCall
    \/ EngineReturns
    \/ RegistryRaises
    \/ EngineReturn

SpecRegistry == InitRegistry /\ [][NextRegistry]_vars

\* the positions of the registered rules a call with rule_ids names
Named(rule_ids) ==
    {k \in 1..Len(rules) : rule_ids = NULL \/ rules[k] \in Range(rule_ids)}

\* the j-th smallest position of a set of positions
Nth(positions, j) ==
    CHOOSE k \in positions : Cardinality({i \in positions : i < k}) = j - 1

C28_RuleIdsDistinct ==
    /\ \A i, j \in 1..Len(rules) : rules[i] = rules[j] => i = j
    /\ \A i, j \in 1..Len(run[1].rules_to_run) :
          run[1].rules_to_run[i] = run[1].rules_to_run[j] => i = j

----------------------------------------------------------------------------
(* SecurityRulesEngine.get_summary, applied to finding sequences *)

\* how many findings a summarised sequence holds at most
MaxFindings == 3

Severities == {"CRITICAL", "HIGH", "MEDIUM", "LOW", "INFO"}

\* a severity that counts CRITICAL as HIGH
severity_merged(finding) ==
    IF finding.severity = "CRITICAL" THEN "HIGH" ELSE finding.severity

\* finding.severity.value
severity_value(finding) == finding.severity

\* if key not in d: d[key] = 0; d[key] += 1
Increment(d, key) ==
    [k \in DOMAIN d \cup {key} |-> IF k = key
                                   THEN (IF key \in DOMAIN d THEN d[key] ELSE 0) + 1
                                   ELSE d[k]]

\* the loops of get_summary over findings[1..k]
RECURSIVE get_summary_loop(_, _)
get_summary_loop(findings, k) ==
    IF k = 0 THEN [NoSummary EXCEPT !.total_findings = Len(findings)]
    ELSE LET summary == get_summary_loop(findings, k - 1)
             finding == findings[k]
         IN  [summary EXCEPT
                 !.by_severity = Increment(@, severity_value(finding)),
                 !.by_rule = Increment(@, finding.rule_id),
                 !.affected_resources = @ + Len(finding.affected_resources)]

\* get_summary(findings)
get_summary(findings) ==
    /\ ret' = [NoCall EXCEPT !.op = "get_summary", !.data = findings,
                             !.summary = get_summary_loop(findings, Len(findings)),
                             !.after = ret.op]
    /\ UNCHANGED <<clock, update_tag, nodes, edges, rules, pc, run, others>>

\* findings as any caller may hand them in: affected_resources is a list
SummaryFindings ==
    { [rule_id |-> "EXPOSED_SSH", severity |-> "HIGH",
       affected_resources |-> <<"a">>],
      [rule_id |-> "EXPOSED_RDP", severity |-> "HIGH",
       affected_resources |-> <<"a", "b">>],
      [rule_id |-> "OVERLY_PERMISSIVE", severity |-> "CRITICAL",
       affected_resources |-> <<"g", "g">>],
      [rule_id |-> "ORPHANED_EBS", severity |-> "LOW",
       affected_resources |-> <<>>],
      [rule_id |-> "EXPOSED_SSH", severity |-> "CRITICAL",
       affected_resources |-> <<"a", "b", "c">>] }

SummaryInputs == UNION {[1..n -> SummaryFindings] : n \in 0..MaxFindings}

GetSummary == \E findings \in SummaryInputs : get_summary(findings)

InitSummary ==
    /\ clock = 1
    /\ update_tag = 1
    /\ nodes = {}
    /\ edges = {}
    /\ ret = NoCall
    /\ LoaderReady
    /\ rules = DefaultRules
    /\ pc = [t \in {1} |-> "idle"]
    /\ run = [t \in {1} |-> NoRun]

NextSummary == GetSummary

SpecSummary == InitSummary /\ [][NextSummary]_vars

\* the sum of a dictionary's counts
RECURSIVE SumOf(_)
SumOf(d) ==
    IF DOMAIN d = {} THEN 0
    ELSE LET k == CHOOSE j \in DOMAIN d : TRUE
         IN  d[k] + SumOf([j \in DOMAIN d \ {k} |-> d[j]])

\* the sum of the lengths of the findings' affected_resources
RECURSIVE TotalResources(_)
TotalResources(findings) ==
    IF findings = <<>> THEN 0
    ELSE Len(Head(findings).affected_resources) + TotalResources(Tail(findings))

\* d[k], or 0 when d has no key k
CountOf(d, k) == IF k \in DOMAIN d THEN d[k] ELSE 0

\* C16: in the summary of a finding sequence every severity counts exactly
\* the findings of that severity and every rule id exactly the findings of
\* that rule, the severity counts and the rule counts each add up to
\* total_findings, which is the length of the sequence, and
\* affected_resources is the sum of the lengths of the findings'
\* affected_resources.
C16_SummaryAggregates ==
    ret.op = "get_summary"
        => LET findings == ret.data
               summary  == ret.summary
           IN  /\ summary.total_findings = Len(findings)
               /\ DOMAIN summary.by_severity \subseteq Severities
               /\ \A sev \in Severities :
                     CountOf(summary.by_severity, sev) =
                        Cardinality({i \in 1..Len(findings) :
                                        findings[i].severity = sev})
               /\ \A i \in 1..Len(findings) :
                     summary.by_rule[findings[i].rule_id] =
                        Cardinality({j \in 1..Len(findings) :
                                        findings[j].rule_id = findings[i].rule_id})
               /\ SumOf(summary.by_severity) = summary.total_findings
               /\ SumOf(summary.by_rule) = summary.total_findings
               /\ summary.affected_resources = TotalResources(findings)

\* a summary of one CRITICAL and two HIGH findings over five resources
C16_Witness ==
    /\ ret.op = "get_summary"
    /\ Len(ret.data) = 3
    /\ CountOf(ret.summary.by_severity, "CRITICAL") = 1
    /\ CountOf(ret.summary.by_severity, "HIGH") = 2
    /\ ret.summary.affected_resources = 5

----------------------------------------------------------------------------
(* Specification of the exposed-SSH rule over firewall rules of several port
   ranges: an instance, its group and the group's rule are loaded and linked,
   the rule is loaded again with another port range, and ExposedSSHRule is
   evaluated in between *)

\* the port ranges of the firewall rule
PortRanges == {"22", "80", "2222", "0-65535"}

\* the firewall rule r of group g with the given port range and source
RuleWith(port_range, cidr) ==
    [id |-> "r", GroupId |-> "g", Protocol |-> "tcp", PortRange |-> port_range,
     SourceCIDR |-> cidr, Direction |-> "inbound"]

PortsNodeInputs ==
    { [kind |-> "EC2Instance", data |-> <<InstanceA>>, region |-> "us-east-1"],
      [kind |-> "SecurityGroup", data |-> <<GroupG>>, region |-> "us-east-1"] }
    \cup { [kind |-> "SecurityRule", data |-> <<RuleWith(p, "0.0.0.0/0")>>,
            region |-> NULL] : p \in PortRanges }
    \cup { [kind |-> "SecurityRule", data |-> <<RuleWith("22", "10.0.0.0/8")>>,
            region |-> NULL] }

PortsLoadNodes ==
    \E in \in PortsNodeInputs : load_nodes(in.kind, in.data, in.region, 0)

PortsLoadRelationships ==
    \E in \in DetachRelInputs : load_relationships(in.rel, in.data, 0)

PortsEvaluate == EvaluateRule("EXPOSED_SSH")

InitPorts ==
    /\ clock = 1
    /\ update_tag = 1
    /\ nodes = {}
    /\ edges = {}
    /\ ret = NoCall
    /\ LoaderReady
    /\ EngineIdle

NextPorts ==
    \/ PortsLoadNodes
    \/ PortsLoadRelationships
    \/ PortsEvaluate

SpecPorts == InitPorts /\ [][NextPorts]_vars

\* the ports a PortRange value stands for: one port, or first-last
PortsOf(port_range) ==
    CASE port_range = "22"      -> 22..22
      [] port_range = "80"      -> 80..80
      [] port_range = "2222"    -> 2222..2222
      [] port_range = "3389"    -> 3389..3389
      [] port_range = "0-65535" -> 0..65535
      [] OTHER                  -> {}

\* the instances in a group with an inbound TCP rule from anywhere whose
\* port range covers the port
ExposedOn(ns, es, port) ==
    {i \in Labelled(ns, "EC2Instance") :
        \E sg \in Labelled(ns, "SecurityGroup"),
           rule \in Labelled(ns, "SecurityRule") :
            /\ Edge(es, i, "IS_MEMBER_OF", sg)
            /\ Edge(es, sg, "HAS_RULE", rule)
            /\ OpenInbound(rule)
            /\ port \in PortsOf(Get(rule.props, "PortRange"))}

\* C17 (as claimed): ExposedSSHRule returns a finding exactly when some
\* instance is in a group with an inbound TCP rule from anywhere that covers
\* port 22, and the finding names exactly those instances.
C17_ExposedSSHExact ==
    (ret.op = "evaluate" /\ ret.kind = "EXPOSED_SSH")
        => /\ (ret.data # <<>>) <=> (ExposedOn(nodes, edges, 22) # {})
           /\ \A k \in 1..Len(ret.data) :
                 {r.id : r \in ret.data[k].affected_resources}
                    = {Get(i.props, "id") : i \in ExposedOn(nodes, edges, 22)}

----------------------------------------------------------------------------
(* Specification of the unattached-volume rule: three volumes in any of two
   states and an instance are loaded, the first volume is attached, and
   OrphanedEBSRule is evaluated in between *)

VolumeStates == {"available", "in-use"}

\* a volume record of _extract_ebs_volumes
Volume(id, state) == [id |-> id, State |-> state, Encrypted |-> "false"]

\* one scan's volumes
VolumeData ==
    { <<Volume("v1", s1), Volume("v2", s2), Volume("v3", s3)>> :
        s1 \in {"in-use"}, s2 \in VolumeStates, s3 \in VolumeStates }

VolumesLoadNodes ==
    \/ load_nodes("EC2Instance", <<InstanceA>>, "us-east-1", 0)
    \/ \E data \in VolumeData : load_nodes("EBSVolume", data, "us-east-1", 0)

VolumesLoadRelationships ==
    load_relationships("ATTACHES_TO",
                       <<[volume_id |-> "v1", instance_id |-> "a"]>>, 0)

VolumesEvaluate == EvaluateRule("ORPHANED_EBS")

InitVolumes ==
    /\ clock = 1
    /\ update_tag = 1
    /\ nodes = {}
    /\ edges = {}
    /\ ret = NoCall
    /\ LoaderReady
    /\ EngineIdle

NextVolumes ==
    \/ VolumesLoadNodes
    \/ VolumesLoadRelationships
    \/ VolumesEvaluate

SpecVolumes == InitVolumes /\ [][NextVolumes]_vars

\* the volumes without an ATTACHES_TO edge to an instance
Unattached(ns, es) ==
    {v \in Labelled(ns, "EBSVolume") :
        ~\E i \in Labelled(ns, "EC2Instance") : Edge(es, v, "ATTACHES_TO", i)}

\* C18 (as claimed): OrphanedEBSRule returns a finding exactly when some
\* volume has no ATTACHES_TO edge to an instance, and the finding lists
\* exactly those volumes, whatever their other fields are.
C18_OrphanedExact ==
    (ret.op = "evaluate" /\ ret.kind = "ORPHANED_EBS")
        => /\ (ret.data # <<>>) <=> (Unattached(nodes, edges) # {})
           /\ \A k \in 1..Len(ret.data) :
                 {r.id : r \in ret.data[k].affected_resources}
                    = {Get(v.props, "id") : v \in Unattached(nodes, edges)}

----------------------------------------------------------------------------
(* Specification of the kinds the loader ingests: load_nodes is called with
   each kind _load_aws_nodes passes to it, and with a kind nobody knows *)

\* the node types _load_aws_nodes calls load_nodes with
LoaderKinds ==
    {"EC2Instance", "SecurityGroup", "VPC", "Subnet", "EBSVolume", "S3Bucket"}

KindsData == {<<>>, <<[id |-> "a"]>>}

KindsLoadNodes ==
    \E node_type \in LoaderKinds \cup {"NoSuchKind"}, data \in KindsData :
        \E down \in 0..NumBatches(data) :
            load_nodes(node_type, data, "us-east-1", down)

InitKinds ==
    /\ clock = 1
    /\ update_tag = 1
    /\ nodes = {}
    /\ edges = {}
    /\ ret = NoCall
    /\ LoaderReady
    /\ EngineIdle

NextKinds == KindsLoadNodes

SpecKinds == InitKinds /\ [][NextKinds]_vars

\* C19 (as claimed): load_nodes for a kind that is not registered fails
\* without sending a query, and every kind the loader itself ingests is
\* registered, so that none of its own load_nodes calls fails that way.
C19_LoaderKindsRegistered ==
    ret.op = "load_nodes"
        => /\ get_schema(ret.kind) = NULL => (~ret.ok /\ ret.queries = 0)
           /\ ret.kind \in LoaderKinds => get_schema(ret.kind) # NULL

\* EC2InstanceToAWSAccountRel.target_node_label, the
\* sub_resource_relationship of every registered schema
sub_resource_relationship(label) == "AWSAccount"

\* the target_node_label of each of the schema's other_relationships
other_relationships(label) ==
    CASE label = "EC2Instance"   -> {"SecurityGroup", "Subnet"}
      [] label = "SecurityGroup" -> {"VPC"}
      [] label = "VPC"           -> {}
      [] label = "Subnet"        -> {"VPC"}
      [] label = "EBSVolume"     -> {"EC2Instance"}
      [] label = "SecurityRule"  -> {"SecurityGroup"}

\* the labels the schema's relationship definitions target
RelationshipTargets(label) ==
    {sub_resource_relationship(label)} \cup other_relationships(label)

\* C20 (as claimed): a kind whose schema has a relationship definition that
\* targets an unregistered label never gets to ingest: whenever load_nodes
\* has used a kind's schema, every target of that schema's
\* sub_resource_relationship and other_relationships is a registered kind.
C20_RelationshipTargetsRegistered ==
    (ret.op = "load_nodes" /\ get_schema(ret.kind) # NULL /\ ret.queries > 0)
        => \A target \in RelationshipTargets(get_schema(ret.kind)) :
              get_schema(target) # NULL


\* ---------------------------------------------------------------------------
\* Schema setup: create_indexes, then _create_constraints
\* ---------------------------------------------------------------------------

Index(label, prop) == [label |-> label, prop |-> prop]

\* the CREATE INDEX IF NOT EXISTS statements, in the order they are run
INDEXES ==
    << Index("EC2Instance", "id"), Index("EC2Instance", "lastupdated"),
       Index("EC2Instance", "instanceid"), Index("EC2Instance", "state"),
       Index("EC2Instance", "region"),
       Index("SecurityGroup", "id"), Index("SecurityGroup", "lastupdated"),
       Index("SecurityGroup", "groupid"), Index("SecurityGroup", "vpcid"),
       Index("VPC", "id"), Index("VPC", "lastupdated"),
       Index("VPC", "vpcid"), Index("VPC", "region"),
       Index("Subnet", "id"), Index("Subnet", "lastupdated"),
       Index("Subnet", "subnetid"), Index("Subnet", "vpcid"),
       Index("Subnet", "availabilityzone"),
       Index("EBSVolume", "id"), Index("EBSVolume", "lastupdated"),
       Index("EBSVolume", "volumeid"), Index("EBSVolume", "state"),
       Index("SecurityRule", "id"), Index("SecurityRule", "lastupdated"),
       Index("SecurityRule", "ruleid"), Index("SecurityRule", "protocol"),
       Index("SecurityRule", "direction") >>

\* the labels of the DROP INDEX and of the CREATE CONSTRAINT statements
drop_indexes ==
    {"EC2Instance", "SecurityGroup", "VPC", "Subnet", "EBSVolume",
     "SecurityRule", "S3Bucket"}

constraints == drop_indexes

\* a uniqueness constraint on a label's id is backed by an index of its own
Backed(cat, i) == i.prop = "id" /\ i.label \in cat.constraints

\* the loop without its try/except: the first failing statement ends it
RunUntilFailure(down) ==
    {k \in 1..Len(INDEXES) : \A j \in 1..k : INDEXES[j] \notin down.index}

\* the statements of INDEXES that are run: with the try/except inside the
\* loop, all of them
TryEach(down) == 1..Len(INDEXES)

\* create_indexes(neo4j_session): each statement in its own try/except; IF NOT
\* EXISTS makes a statement whose index exists a no-op
create_indexes(cat, down) ==
    [cat EXCEPT !.indexes =
        @ \cup {INDEXES[k] : k \in {j \in TryEach(down) :
                    /\ INDEXES[j] \notin down.index
                    /\ ~Backed(cat, INDEXES[j])}}]

\* _create_constraints(): the DROP INDEX statements, each in its own try/except,
\* then the CREATE CONSTRAINT statements, each in its own try/except; the store
\* refuses a constraint while a plain index on the same label and property exists
create_constraints(cat, down) ==
    LET dropped == [cat EXCEPT !.indexes =
                       {i \in @ : ~(i.prop = "id" /\ i.label \in drop_indexes \ down.drop)}]
    IN  [dropped EXCEPT !.constraints =
            @ \cup {l \in constraints \ down.constraint :
                        Index(l, "id") \notin dropped.indexes}]

\* every statement fails on a session that cannot reach the store
AllDown == [index |-> Range(INDEXES), drop |-> drop_indexes, constraint |-> constraints]

\* setup_schema(): RuntimeError without a session, else the indexes and then the
\* constraints; the statements of down fail in the store
setup_schema(down) ==
    LET failing == IF session = "open" THEN down ELSE AllDown
    IN  /\ catalog' = IF session = "None" THEN catalog
                      ELSE create_constraints(create_indexes(catalog, failing), failing)
        /\ ret' = [NoCall EXCEPT
                     !.op = "setup_schema",
                     !.raised = IF session = "None" THEN "RuntimeError" ELSE "none",
                     !.ok = (session # "None"),
                     !.down = failing,
                     !.queries = IF session = "None" THEN 0
                                 ELSE Len(INDEXES) + Cardinality(drop_indexes)
                                      + Cardinality(constraints),
                     !.cause = IF failing = NoDown THEN "none" ELSE "store error",
                     !.repeat = (ret.op = "setup_schema" /\ ret.down = failing
                                 /\ ret.raised = "none"),
                     !.after = ret.op,
                     !.tag = update_tag]
        /\ UNCHANGED <<clock, update_tag, nodes, edges, rules, pc, run, session, registry>>

\* the failures the store answers the schema statements with
SchemaDowns ==
    [index : {{}, {Index("EC2Instance", "id")}, {Index("EC2Instance", "state")}},
     drop : {{}, drop_indexes},
     constraint : {{}, {"EC2Instance"}}]

SchemaSetup == \E down \in SchemaDowns : setup_schema(down)

\* create_indexes called on its own, as data_models offers it
SchemaCreateIndexes ==
    \E down \in SchemaDowns :
        /\ catalog' = create_indexes(catalog, down)
        /\ ret' = [NoCall EXCEPT !.op = "create_indexes", !.down = down,
                                 !.after = ret.op, !.tag = update_tag]
        /\ UNCHANGED <<clock, update_tag, nodes, edges, rules, pc, run, session, registry>>

InitSchema ==
    /\ clock = 1
    /\ update_tag = 1
    /\ nodes = {}
    /\ edges = {}
    /\ ret = NoCall
    /\ LoaderReady
    /\ EngineIdle

NextSchema ==
    \/ SchemaSetup
    \/ SchemaCreateIndexes

SpecSchema == InitSchema /\ [][NextSchema]_vars

----------------------------------------------------------------------------
(* Specification of re-ingestion: a volume is loaded, the analyses annotate
   it, and later scans load it again, with fewer fields or another state *)

\* the records later scans deliver for volume v
ReingestRecords ==
    {Volume("v", "available"), Volume("v", "in-use"),
     [id |-> "v", State |-> "in-use"]}

ReingestLoadNodes ==
    \E r \in ReingestRecords, down \in 0..1 :
        load_nodes("EBSVolume", <<r>>, "us-east-1", down)

ReingestAnalysis ==
    \E analysis_type \in {"orphaned_volumes", "cost"} :
        run_analysis_advanced(analysis_type, FALSE)

InitReingest ==
    /\ clock = 1
    /\ update_tag = 1
    /\ nodes = LoadBatches({}, "EC2Instance", <<InstanceS>>, 1, 1, "us-east-1")
    /\ edges = {}
    /\ ret = NoCall
    /\ LoaderReady
    /\ EngineIdle

NextReingest ==
    \/ ReingestLoadNodes
    \/ ReingestAnalysis

SpecReingest == InitReingest /\ [][NextReingest]_vars

\* the last record of data with the identity v
LastRecord(data, v) ==
    data[CHOOSE k \in 1..Len(data) :
            /\ Get(data[k], "id") = v
            /\ \A j \in (k + 1)..Len(data) : Get(data[j], "id") # v]

\* C22: after a load_nodes that succeeded, the node of every record carries
\* the non-null fields of its latest record and the region, and nothing else:
\* no property of an earlier ingestion and no flag an analysis derived survives
C22_ReingestReplaces ==
    [][(ret'.op = "load_nodes" /\ ret'.ok)
          => \A k \in 1..Len(ret'.data) :
               \A n \in Match(nodes', ret'.kind, Get(ret'.data[k], "id")) :
                  LET item == LastRecord(ret'.data, Get(ret'.data[k], "id"))
                  IN  DOMAIN n.props
                        = {f \in DOMAIN item : item[f] # NULL}
                            \cup (IF HasRegion(ret'.kind) THEN {"region"} ELSE {})]_vars


----------------------------------------------------------------------------
(* ImprovedNeo4jLoader.load_aws_data: the node loads, then the relationship
   loads, then the security rules and their relationships.  An input is a
   record with a subset of the keys ec2_instances, security_groups, vpcs,
   subnets, ebs_volumes, s3_buckets, security_rules, each a sequence of the
   resources found under 'Reservations'/'Instances', 'SecurityGroups', ... *)

\* dict.get(key) over a list of resources: one record per resource
Extract(list, F(_)) == [k \in 1..Len(list) |-> F(list[k])]

\* the records of the _extract_* methods (the fields the queries read)
ec2_item(i) ==
    [id |-> Get(i, "InstanceId"), InstanceId |-> Get(i, "InstanceId"),
     State |-> Get(i, "State")]
sg_item(g)     == [id |-> Get(g, "GroupId"), GroupId |-> Get(g, "GroupId")]
vpc_item(v)    == [id |-> Get(v, "VpcId"), VpcId |-> Get(v, "VpcId")]
subnet_item(n) ==
    [id |-> Get(n, "SubnetId"), SubnetId |-> Get(n, "SubnetId"),
     VpcId |-> Get(n, "VpcId")]
ebs_item(v) ==
    [id |-> Get(v, "VolumeId"), VolumeId |-> Get(v, "VolumeId"),
     State |-> Get(v, "State"), Encrypted |-> "false"]
s3_item(b)     == [id |-> Get(b, "BucketName"), Name |-> Get(b, "BucketName")]
rule_item(r) ==
    [id |-> Get(r, "RuleId"), RuleId |-> Get(r, "RuleId"),
     GroupId |-> Get(r, "GroupId"), Protocol |-> Get(r, "Protocol"),
     PortRange |-> Get(r, "PortRange"), SourceCIDR |-> Get(r, "SourceCIDR"),
     Direction |-> Get(r, "Direction")]

\* instance.get('InstanceID') of the two relationship builders
InstanceKey(instance) == Get(instance, "InstanceID")

\* relationships.append in a nested loop: the lists one after the other
RECURSIVE Flatten(_)
Flatten(lists) ==
    IF lists = <<>> THEN <<>> ELSE Head(lists) \o Flatten(Tail(lists))

\* _load_ec2_security_group_relationships: a pair per instance and group
member_pairs(instances) ==
    LET Of(i) == [j \in 1..Len(Get(i, "SecurityGroups")) |->
                     [instance_id |-> InstanceKey(i),
                      group_id |-> Get(i, "SecurityGroups")[j]]]
    IN  Flatten(Extract(instances, Of))

\* _load_ec2_subnet_relationships: a pair when both identities are there
subnet_pairs(instances) ==
    LET Of(i) == IF InstanceKey(i) # NULL /\ Get(i, "SubnetId") # NULL
                 THEN <<[instance_id |-> InstanceKey(i),
                         subnet_id |-> Get(i, "SubnetId")]>>
                 ELSE <<>>
    IN  Flatten(Extract(instances, Of))

\* _load_ebs_ec2_relationships: a pair per volume and attachment
attach_pairs(volumes) ==
    LET Of(v) == IF Get(v, "VolumeId") = NULL THEN <<>>
                 ELSE [j \in 1..Len(Get(v, "Attachments")) |->
                          [volume_id |-> Get(v, "VolumeId"),
                           instance_id |-> Get(v, "Attachments")[j]]]
    IN  Flatten(Extract(volumes, Of))

\* the second half of _load_security_rules_and_relationships
rule_pairs(rs) ==
    Extract(rs, LAMBDA r : [group_id |-> Get(r, "GroupId"),
                            rule_id |-> Get(r, "RuleId")])

\* one call of load_nodes or load_relationships, made only for a non-empty list
Step(call, kind, list, region) ==
    IF list = <<>> THEN <<>>
    ELSE <<[call |-> call, kind |-> kind, data |-> list, region |-> region]>>

Has(data, key) == key \in DOMAIN data

\* _load_aws_nodes
aws_node_steps(data, region) ==
    (IF Has(data, "ec2_instances")
     THEN Step("load_nodes", "EC2Instance",
               Extract(data.ec2_instances, ec2_item), region) ELSE <<>>)
    \o (IF Has(data, "security_groups")
        THEN Step("load_nodes", "SecurityGroup",
                  Extract(data.security_groups, sg_item), region) ELSE <<>>)
    \o (IF Has(data, "vpcs")
        THEN Step("load_nodes", "VPC", Extract(data.vpcs, vpc_item), region)
        ELSE <<>>)
    \o (IF Has(data, "subnets")
        THEN Step("load_nodes", "Subnet",
                  Extract(data.subnets, subnet_item), region) ELSE <<>>)
    \o (IF Has(data, "ebs_volumes")
        THEN Step("load_nodes", "EBSVolume",
                  Extract(data.ebs_volumes, ebs_item), region) ELSE <<>>)
    \o (IF Has(data, "s3_buckets")
        THEN Step("load_nodes", "S3Bucket",
                  Extract(data.s3_buckets, s3_item), region) ELSE <<>>)

\* _load_aws_relationships, but for the security rules
aws_relationship_steps(data) ==
    (IF Has(data, "ec2_instances") /\ Has(data, "security_groups")
     THEN Step("load_relationships", "IS_MEMBER_OF",
               member_pairs(data.ec2_instances), NULL) ELSE <<>>)
    \o (IF Has(data, "ec2_instances") /\ Has(data, "subnets")
        THEN Step("load_relationships", "LOCATED_IN",
                  subnet_pairs(data.ec2_instances), NULL) ELSE <<>>)
    \o (IF Has(data, "ebs_volumes") /\ Has(data, "ec2_instances")
        THEN Step("load_relationships", "ATTACHES_TO",
                  attach_pairs(data.ebs_volumes), NULL) ELSE <<>>)

\* _load_security_rules_and_relationships: the rule nodes, then HAS_RULE
aws_rule_steps(data) ==
    IF Has(data, "security_rules")
    THEN Step("load_nodes", "SecurityRule",
              Extract(data.security_rules, rule_item), NULL)
         \o Step("load_relationships", "HAS_RULE",
                 rule_pairs(data.security_rules), NULL)
    ELSE <<>>

\* an order that loads the relationships before the nodes they join
relationships_first(node_steps, relationship_steps, rule_steps) ==
    relationship_steps \o node_steps \o rule_steps

\* the order of load_aws_data: _load_aws_nodes, then _load_aws_relationships
nodes_first(node_steps, relationship_steps, rule_steps) ==
    node_steps \o relationship_steps \o rule_steps

aws_steps(data, region) ==
    nodes_first(aws_node_steps(data, region), aws_relationship_steps(data),
                aws_rule_steps(data))

\* one step on the graph g: load_nodes or load_relationships as above, the
\* store raising at the step's first batch when fails; the result is the
\* graph and what the call returned
RunStep(g, step, tag, fails) ==
    IF step.call = "load_nodes"
    THEN LET schema == get_schema(step.kind)
             derr   == FirstDataError(step.data)
             failed == IF fails THEN 1 ELSE derr
             done   == IF failed = 0 THEN NumBatches(step.data) ELSE failed - 1
         IN  [nodes |-> IF schema = NULL THEN g.nodes
                        ELSE LoadBatches(g.nodes, schema, step.data, done, tag,
                                         step.region),
              edges |-> g.edges,
              ok |-> (schema # NULL /\ failed = 0)]
    ELSE LET h == IF fails THEN g
                  ELSE LoadRelBatches(g, step.kind, step.data,
                                      NumBatches(step.data), tag)
         IN  [nodes |-> h.nodes, edges |-> h.edges, ok |-> ~fails]

\* the steps 1..k in order; every return value is dropped by the caller and
\* kept here, as the log lines keep it
RECURSIVE RunSteps(_, _, _, _, _)
RunSteps(g, steps, k, tag, down) ==
    IF k = 0 THEN [nodes |-> g.nodes, edges |-> g.edges, issued |-> <<>>]
    ELSE LET before == RunSteps(g, steps, k - 1, tag, down)
             after  == RunStep(before, steps[k], tag, k \in down)
         IN  [nodes |-> after.nodes, edges |-> after.edges,
              issued |-> Append(before.issued,
                                [call |-> steps[k].call, kind |-> steps[k].kind,
                                 data |-> steps[k].data, ok |-> after.ok])]

\* load_aws_data(data, region): RuntimeError without a session; else the
\* steps, none of whose results is read, and True.  The store raises at the
\* steps of down; on a session that cannot reach the store, at every step.
load_aws_data(data, region, down) ==
    LET steps   == aws_steps(data, region)
        failing == IF session = "open" THEN down ELSE 1..Len(steps)
        g       == RunSteps([nodes |-> nodes, edges |-> edges], steps,
                            Len(steps), update_tag, failing)
    IN  /\ down \subseteq 1..Len(steps)
        /\ nodes' = IF session = "None" THEN nodes ELSE g.nodes
        /\ edges' = IF session = "None" THEN edges ELSE g.edges
        /\ ret' = [NoCall EXCEPT
                     !.op = "load_aws_data",
                     !.data = <<data>>,
                     !.region = region,
                     !.tag = update_tag,
                     !.after = ret.op,
                     !.raised = IF session = "None" THEN "RuntimeError" ELSE "none",
                     !.ok = (session # "None"),
                     !.returns = IF session = "None" THEN <<>> ELSE <<TRUE>>,
                     !.issued = IF session = "None" THEN <<>> ELSE g.issued,
                     !.queries = IF session = "None" THEN 0 ELSE Len(g.issued)]
        /\ UNCHANGED <<clock, update_tag, rules, pc, run, others>>


----------------------------------------------------------------------------
(* Specification of one pass of load_aws_data over a scan: an instance in a
   group and a subnet, a volume attached to it, a rule on the group *)

\* the instance as describe_instances gives it, as the mock data writes it,
\* and with both spellings of the key
ScanInstances ==
    { [InstanceId |-> "a", State |-> "running",
       SecurityGroups |-> <<"g">>, SubnetId |-> "n"],
      [InstanceID |-> "a", State |-> "running",
       SecurityGroups |-> <<"g">>, SubnetId |-> "n"],
      [InstanceId |-> "a", InstanceID |-> "a", State |-> "running",
       SecurityGroups |-> <<"g">>, SubnetId |-> "n"] }

ScanRule ==
    [RuleId |-> "r", GroupId |-> "g", Protocol |-> "tcp", PortRange |-> "22",
     SourceCIDR |-> "0.0.0.0/0", Direction |-> "inbound"]

Scan(i) ==
    [ec2_instances |-> <<i>>,
     security_groups |-> <<[GroupId |-> "g"]>>,
     vpcs |-> <<[VpcId |-> "p"]>>,
     subnets |-> <<[SubnetId |-> "n", VpcId |-> "p"]>>,
     ebs_volumes |-> <<[VolumeId |-> "v", State |-> "in-use",
                        Attachments |-> <<"a">>]>>,
     security_rules |-> <<ScanRule>>]

ScanInputs ==
    {Scan(i) : i \in ScanInstances}
      \cup {[security_groups |-> <<[GroupId |-> "g"]>>,
             s3_buckets |-> <<[BucketName |-> "b"]>>]}

\* the store fails no step, or the first, the second or the last
AwsLoad ==
    \E data \in ScanInputs :
        \E down \in {{}, {1}, {2}, {Len(aws_steps(data, "us-east-1"))}} :
            load_aws_data(data, "us-east-1", down)

InitAws ==
    /\ clock = 1
    /\ update_tag = 1
    /\ nodes = {}
    /\ edges = {}
    /\ ret = NoCall
    /\ LoaderReady
    /\ EngineIdle

NextAws == AwsLoad

SpecAws == InitAws /\ [][NextAws]_vars

\* C24: in the calls of one load_aws_data, a relationship load comes after
\* every node load of its two endpoint labels, and after a relationship load
\* that succeeded every pair of its list whose two endpoints are in the graph
\* is joined by an edge
C24_NodesBeforeRelationships ==
    ret.op = "load_aws_data" =>
        \A k \in 1..Len(ret.issued) :
            ret.issued[k].call = "load_relationships" =>
                LET def == RelDef(ret.issued[k].kind)
                IN  /\ \A j \in 1..Len(ret.issued) :
                          (/\ ret.issued[j].call = "load_nodes"
                           /\ ret.issued[j].kind \in {def.src, def.dst})
                             => j < k
                    /\ ret.issued[k].ok =>
                          \A m \in 1..Len(ret.issued[k].data) :
                             LET p == ret.issued[k].data[m]
                             IN  \A x \in Match(nodes, def.src, Get(p, def.skey)),
                                    y \in Match(nodes, def.dst, Get(p, def.dkey)) :
                                     Edge(edges, x, ret.issued[k].kind, y)

\* a pass has loaded the rule and the volume after their endpoints and joined
\* them
C24_Witness ==
    /\ ret.op = "load_aws_data"
    /\ \E k \in 1..Len(ret.issued) :
          ret.issued[k].kind = "HAS_RULE" /\ ret.issued[k].ok
    /\ \E x \in Labelled(nodes, "SecurityGroup"), y \in Labelled(nodes, "SecurityRule") :
          Edge(edges, x, "HAS_RULE", y)
    /\ \E x \in Labelled(nodes, "EBSVolume"), y \in Labelled(nodes, "EC2Instance") :
          Edge(edges, x, "ATTACHES_TO", y)

\* C25: load_aws_data returns True only if every load_nodes and every
\* load_relationships call it made returned True
C25_TrueOnlyIfAllSucceeded ==
    (ret.op = "load_aws_data" /\ ret.returns = <<TRUE>>)
        => \A k \in 1..Len(ret.issued) : ret.issued[k].ok

\* C26: after a load_aws_data all of whose loads succeeded, every instance of
\* the input that names a group of the input is joined to it by IS_MEMBER_OF,
\* and every instance that names a subnet of the input by LOCATED_IN, the
\* instance endpoint being the node with the id the instance was loaded under
C26_InstanceEndpointResolved ==
    (/\ ret.op = "load_aws_data"
     /\ \A k \in 1..Len(ret.issued) : ret.issued[k].ok
     /\ Has(ret.data[1], "ec2_instances"))
        => LET data == ret.data[1]
           IN  \A k \in 1..Len(data.ec2_instances) :
                  LET i == data.ec2_instances[k]
                      X == Match(nodes, "EC2Instance", ec2_item(i).id)
                  IN  /\ Has(data, "security_groups") =>
                          \A j \in 1..Len(Get(i, "SecurityGroups")) :
                             (\E g \in Range(data.security_groups) :
                                  Get(g, "GroupId") = i.SecurityGroups[j])
                               => \E x \in X, y \in Match(nodes, "SecurityGroup",
                                                          i.SecurityGroups[j]) :
                                     Edge(edges, x, "IS_MEMBER_OF", y)
                      /\ (/\ Has(data, "subnets")
                          /\ \E n \in Range(data.subnets) :
                                Get(n, "SubnetId") = Get(i, "SubnetId"))
                            => \E x \in X, y \in Match(nodes, "Subnet",
                                                       Get(i, "SubnetId")) :
                                  Edge(edges, x, "LOCATED_IN", y)


----------------------------------------------------------------------------
(* ImprovedNeo4jLoader: connect, close and the session guard of the public
   operations.  session is "None" after __init__, "open" after a connect that
   returned True, "failed" when the session object was made and the test query
   raised, "closed" after close(), which closes the session and the driver and
   keeps both attributes *)

\* connect(): the driver cannot be made ("no driver"), the test query raises
\* ("unreachable"), or all is well ("ok")
connect(outcome) ==
    /\ session' = CASE outcome = "ok" -> "open"
                    [] outcome = "unreachable" -> "failed"
                    [] outcome = "no driver" -> session
    /\ ret' = [NoCall EXCEPT !.op = "connect", !.ok = (outcome = "ok"),
                             !.returns = <<outcome = "ok">>,
                             !.queries = IF outcome = "no driver" THEN 0 ELSE 1,
                             !.after = ret.op, !.tag = update_tag]
    /\ UNCHANGED <<clock, update_tag, nodes, edges, rules, pc, run, catalog, registry>>

\* close(): self.session.close() and self.driver.close(); neither attribute is
\* set back to None
close ==
    /\ session' = IF session = "None" THEN "None" ELSE "closed"
    /\ ret' = [NoCall EXCEPT !.op = "close", !.after = ret.op, !.tag = update_tag]
    /\ UNCHANGED <<clock, update_tag, nodes, edges, rules, pc, run, catalog, registry>>

\* if not self.session: raise RuntimeError(...), ahead of the operation's body
RequireSession(op, call) ==
    IF session = "None"
    THEN /\ ret' = [NoCall EXCEPT !.op = op, !.raised = "RuntimeError",
                                  !.ok = FALSE, !.after = ret.op,
                                  !.tag = update_tag]
         /\ UNCHANGED <<clock, update_tag, nodes, edges, rules, pc, run, others>>
    ELSE call

\* the batch at which a session that cannot reach the store raises: the first
Unreachable(n) == IF session = "open" \/ n = 0 THEN 0 ELSE 1

\* get_statistics(): a count query per registered kind and per relationship
\* type, none of them in a try: the first that raises ends the call
get_statistics ==
    /\ ret' = [NoCall EXCEPT
                 !.op = "get_statistics",
                 !.raised = IF session = "open" THEN "none" ELSE "ServiceUnavailable",
                 !.ok = (session = "open"),
                 !.queries = IF session = "open"
                             THEN Cardinality(SCHEMA_REGISTRY) + Cardinality(RelTypes)
                             ELSE 1,
                 !.reported = IF session = "open"
                              THEN Cardinality({n \in nodes : n.label \in SCHEMA_REGISTRY})
                                   + Cardinality(edges)
                              ELSE 0,
                 !.after = ret.op, !.tag = update_tag]
    /\ UNCHANGED <<clock, update_tag, nodes, edges, rules, pc, run, others>>

----------------------------------------------------------------------------
(* Specification of the connection: a loader is made, connected or not,
   closed, and its public operations are called in any of these states *)

ConnConnect == \E outcome \in {"ok", "unreachable", "no driver"} : connect(outcome)

ConnClose == close

ConnSetupSchema == setup_schema(NoDown)

ConnLoadNodes ==
    \E data \in {<<>>, <<InstanceA>>} :
        RequireSession("load_nodes",
            load_nodes("EC2Instance", data, "us-east-1",
                       Unreachable(NumBatches(data))))

ConnLoadRelationships ==
    LET data == <<[instance_id |-> "a", group_id |-> "g"]>>
    IN  RequireSession("load_relationships",
            load_relationships("IS_MEMBER_OF", data,
                               Unreachable(NumBatches(data))))

ConnCleanup ==
    RequireSession("cleanup_old_data",
        cleanup_old_data({"EC2Instance"},
                         IF session = "open" THEN {} ELSE {"EC2Instance"}))

ConnLoadAwsData ==
    load_aws_data([security_groups |-> <<[GroupId |-> "g"]>>], "us-east-1", {})

ConnGetStatistics == RequireSession("get_statistics", get_statistics)

InitConnect ==
    /\ clock = 1
    /\ update_tag = 1
    /\ nodes = {}
    /\ edges = {}
    /\ ret = NoCall
    /\ catalog = NoCatalog
    /\ session = "None"
    /\ registry = NoModules
    /\ EngineIdle

NextConnect ==
    \/ ConnConnect
    \/ ConnClose
    \/ ConnSetupSchema
    \/ ConnLoadNodes
    \/ ConnLoadRelationships
    \/ ConnCleanup
    \/ ConnLoadAwsData
    \/ ConnGetStatistics

SpecConnect == InitConnect /\ [][NextConnect]_vars

\* the operations a caller of the loader has
PublicOps ==
    {"setup_schema", "load_nodes", "load_relationships", "cleanup_old_data",
     "load_aws_data", "get_statistics"}

\* C23: a public operation called on a loader that is not connected (never
\* connected, connect() returned False, or closed) raises RuntimeError and
\* sends no query to the store
C23_NotConnectedRaises ==
    [][(ret'.op \in PublicOps /\ session # "open")
          => (ret'.raised = "RuntimeError" /\ ret'.queries = 0)]_vars


----------------------------------------------------------------------------
(* Specification of the default rules over a graph the loader built: scans
   are loaded with load_aws_data, the loader is asked for CONTAINS pairs, and
   rules are evaluated in between *)

SegmentLoad ==
    \E data \in ScanInputs, down \in {{}, {1}} :
        load_aws_data(data, "us-east-1", down)

SegmentLoadRelationships ==
    load_relationships("CONTAINS", <<[vpc_id |-> "p", subnet_id |-> "n"]>>, 0)

SegmentEvaluate ==
    \E rule_id \in {"NETWORK_SEGMENTATION", "EXPOSED_SSH", "UNENCRYPTED_EBS"} :
        EvaluateRule(rule_id)

InitSegment ==
    /\ clock = 1
    /\ update_tag = 1
    /\ nodes = {}
    /\ edges = {}
    /\ ret = NoCall
    /\ LoaderReady
    /\ EngineIdle

NextSegment ==
    \/ SegmentLoad
    \/ SegmentLoadRelationships
    \/ SegmentEvaluate

SpecSegment == InitSegment /\ [][NextSegment]_vars

\* the subnets of the graph that name a network boundary of the graph
BoundedSubnets(ns) ==
    {n \in Labelled(ns, "Subnet") :
        \E v \in Labelled(ns, "VPC") : Get(n.props, "VpcId") = Get(v.props, "id")}

\* C27: on a graph the loader built, NetworkSegmentationRule returns one
\* finding with one entry per subnet of a loaded network boundary
C27_SegmentationFinding ==
    (/\ ret.op = "evaluate"
     /\ ret.kind = "NETWORK_SEGMENTATION"
     /\ BoundedSubnets(nodes) # {})
        => /\ Len(ret.data) = 1
           /\ {r.id : r \in ret.data[1].affected_resources}
                 = {Get(n.props, "id") : n \in BoundedSubnets(nodes)}


----------------------------------------------------------------------------
(* modular_architecture.py: ModuleRegistry.  modules maps a name to a class,
   module_info a name to its ModuleInfo, instances a name to the instance
   get_module made *)

\* d[k] = v
PutKey(d, k, v) == [j \in DOMAIN d \cup {k} |-> IF j = k THEN v ELSE d[j]]

\* del d[k]
DelKey(d, k) == [j \in DOMAIN d \ {k} |-> d[j]]

\* an unregister_module that leaves the cached instance where it is
keep_instance(instances, module_name) == instances

\* if module_name in self.instances: del self.instances[module_name]
drop_instance(instances, module_name) == DelKey(instances, module_name)

RegistryRet(op, module_name, returns) ==
    [NoCall EXCEPT !.op = op, !.kind = module_name, !.returns = returns,
                   !.ok = (returns # <<FALSE>>),
                   !.after = ret.op, !.tag = update_tag]

\* register_module(module_class, module_info): both dictionaries are written
\* under module_info.name; a module_info without a name raises at the first
\* assignment, which is caught: False, nothing written
register_module(module_class, module_info) ==
    LET named == "name" \in DOMAIN module_info
    IN  /\ registry' =
              IF ~named THEN registry
              ELSE [registry EXCEPT
                      !.modules = PutKey(@, module_info.name, module_class),
                      !.module_info = PutKey(@, module_info.name, module_info)]
        /\ ret' = RegistryRet("register_module",
                              IF named THEN module_info.name ELSE NULL,
                              <<named>>)
        /\ UNCHANGED <<clock, update_tag, nodes, edges, rules, pc, run, catalog, session>>

\* unregister_module(module_name)
unregister_module(module_name) ==
    /\ registry' =
          IF module_name \in DOMAIN registry.modules
          THEN [modules |-> DelKey(registry.modules, module_name),
                module_info |-> DelKey(registry.module_info, module_name),
                instances |-> drop_instance(registry.instances, module_name)]
          ELSE registry
    /\ ret' = RegistryRet("unregister_module", module_name,
                          <<module_name \in DOMAIN registry.modules>>)
    /\ UNCHANGED <<clock, update_tag, nodes, edges, rules, pc, run, catalog, session>>

\* get_module(module_name, config): None for an unknown name; the cached
\* instance when there is one; else module_class(config or {}), cached unless
\* the constructor raises
get_module(module_name, config, raises) ==
    LET known    == module_name \in DOMAIN registry.modules
        cached   == module_name \in DOMAIN registry.instances
        instance == [class |-> registry.modules[module_name], config |-> config]
    IN  /\ raises => (known /\ ~cached)
        /\ registry' =
              IF known /\ ~cached /\ ~raises
              THEN [registry EXCEPT !.instances = PutKey(@, module_name, instance)]
              ELSE registry
        /\ ret' = [RegistryRet("get_module", module_name, <<>>) EXCEPT
                     !.data = IF ~known \/ raises THEN <<>>
                              ELSE IF cached THEN <<registry.instances[module_name]>>
                              ELSE <<instance>>,
                     !.ok = (known /\ ~raises)]
        /\ UNCHANGED <<clock, update_tag, nodes, edges, rules, pc, run, catalog, session>>

----------------------------------------------------------------------------
(* Specification of the module registry: two names, two classes, registered,
   replaced, fetched and unregistered in any order *)

ModuleNames == {"Dashboard Visualizer", "AWS Extractor"}

ModuleClasses == {"DashboardVisualizer", "AWSExtractor"}

\* the infos of the modules, and one that has no name
ModuleInfos ==
    {[name |-> n, version |-> "1.0.0"] : n \in ModuleNames}
      \cup {[version |-> "1.0.0"]}

ModulesRegister ==
    \E module_class \in ModuleClasses, module_info \in ModuleInfos :
        register_module(module_class, module_info)

ModulesUnregister ==
    \E module_name \in ModuleNames : unregister_module(module_name)

ModulesGet ==
    \E module_name \in ModuleNames, raises \in BOOLEAN :
        get_module(module_name, "default", raises)

InitModules ==
    /\ clock = 1
    /\ update_tag = 1
    /\ nodes = {}
    /\ edges = {}
    /\ ret = NoCall
    /\ LoaderReady
    /\ EngineIdle

NextModules ==
    \/ ModulesRegister
    \/ ModulesUnregister
    \/ ModulesGet

SpecModules == InitModules /\ [][NextModules]_vars

\* C29: after every call the classes and the module infos are registered
\* under the same names and every cached instance is under a registered name;
\* unregister_module of a name that is not registered returns False and
\* leaves the registry as it was
C29_RegistryConsistent ==
    [][/\ DOMAIN registry'.modules = DOMAIN registry'.module_info
       /\ DOMAIN registry'.instances \subseteq DOMAIN registry'.modules
       /\ (ret'.op = "unregister_module" /\ ret'.kind \notin DOMAIN registry.modules)
             => (ret'.returns = <<FALSE>> /\ registry' = registry)]_vars

\* a name was unregistered in vain while the other name has a cached instance
C29_Witness ==
    /\ ret.op = "unregister_module"
    /\ ret.returns = <<FALSE>>
    /\ DOMAIN registry.instances # {}
    /\ ret.kind \notin DOMAIN registry.modules

\* C30: the instance get_module returns is an instance of the class that is
\* registered under the name
C30_CurrentClass ==
    (ret.op = "get_module" /\ ret.data # <<>>)
        => ret.data[1].class = registry.modules[ret.kind]

=============================================================================
